---------------------------- MODULE Spec2Model ----------------------------
(***************************************************************************)
(* Model of the coverage-guided raft fuzzer (etcd-fuzzing): the TLC state  *)
(* guider and its client (guider.go, tlc_client.go), the mutation loop of  *)
(* the fuzzer driver (fuzzer.go) and the event emission of the raft        *)
(* harness (raft.go), as documented with source excerpts in                *)
(* src/unnamed/part_000, and of the pub/sub utility (pubsub/client.go).    *)
(*                                                                         *)
(* The specifications:                                                     *)
(*   SpecGuider  - a caller of the Guider interface issuing Check calls on *)
(*                 event-trace lists it builds (a list may be passed to    *)
(*                 Check again);                                           *)
(*   Spec        - the campaign loop of Fuzzer.Run;                        *)
(*   SpecHarness - the raft harness emitting events step by step;          *)
(*   SpecCluster - the cluster harness: message queue, crash and restart,  *)
(*                 client requests;                                        *)
(*   SpecRun     - the campaign loop with every iteration followed choice  *)
(*                 by choice;                                              *)
(*   SpecHook    - the driver checking the invariant hook of the harness;  *)
(*   SpecCopy    - the mutation loop on traces as list objects;            *)
(*   SpecRestart - elections, crashes and restarts under the deterministic *)
(*                 library;                                                *)
(*   SpecMutator - one call of the mutator;                                *)
(*   SpecPubSub  - the pub/sub client: goroutines calling BufferMessage,   *)
(*                 ReceiveMessage and PublishMessage, the receiver         *)
(*                 goroutine and the service, each goroutine step by step; *)
(*   SpecPublish - calls of PublishMessage with every timeout and outcome, *)
(*                 before and after Close;                                 *)
(*   SpecPubSubLive - one goroutine looping on ReceiveMessage while        *)
(*                 another publishes, with the fairness of the scheduler;  *)
(*   SpecClose   - the life of the receiver goroutine: ReceiveMessage      *)
(*                 calls, receive errors and Close (SpecCloseLive: with    *)
(*                 the goroutine calling Close scheduled fairly);          *)
(*   SpecShutdown - messages in flight while Close runs or the receiver    *)
(*                 fails.                                                  *)
(* The parts of the program that the excerpts do not show follow the       *)
(* description of the system in spec.md.                                   *)
(***************************************************************************)
EXTENDS Integers, Sequences, FiniteSets, TLC

(***************************************************************************)
(* Bounds of the model.                                                    *)
(***************************************************************************)
\* abstract-state keys the model server may return: 1..MaxKey
MaxKey == 2
\* longest reply (number of states) of the model server
MaxReply == 2
\* longest event trace a caller hands to Check
MaxEvents == 1
\* number of Check calls a caller of the Guider interface makes
MaxChecks == 2
\* FuzzerConfig.Iterations: iterations of one campaign
Iterations == 2
\* FuzzerConfig.MutPerTrace: mutations per new state
MutPerTrace == 2
\* FuzzerConfig.Horizon: choices per iteration
Horizon == 2
\* nodes of the cluster: 1..NumNodes
NumNodes == 2
\* terms a node may reach: 0..MaxTerm
MaxTerm == 2
\* committed entries in one ready batch: 0..MaxCommitted
MaxCommitted == 2
\* steps the harness takes in a run that does not follow a crashed node
\* (those runs are bounded by MaxDownSteps and MaxRestartSteps)
MaxSteps == 2
\* operations of a run that crashes a node and goes on using it
MaxDownSteps == 3
\* operations of a run that elects, crashes and restarts nodes
MaxRestartSteps == 4
\* FuzzerConfig.Horizon of the campaign that checks the invariant hook
HookHorizon == 3
\* messages one step of a node may put into the queue: 0..MaxOut
MaxOut == 2
\* request ids a client request may carry: 1..MaxRequest
MaxRequest == 1
\* longest trace handed to the mutator on its own
MaxMutLen == 3
\* draws the random strategy makes in one iteration, besides the nodes it
\* chooses
MaxDraws == 1
\* ReceiveMessage calls made by the goroutines of Receivers
MaxCalls == 2
\* messages made by BufferMessage and PublishMessage calls: 1..MaxMsgs
MaxMsgs == 2
\* capacity of messageChan in the model (100 in the program)
ChanCap == 1
\* capacity of errorChan in the model (10 in the program)
ErrCap == 1
\* deliveries the service makes, of all messages together
MaxDeliveries == 3
\* turns of the waiting loop of Close in the model (100 in the program)
MaxPolls == 2

Max(a, b) == IF a >= b THEN a ELSE b

(***************************************************************************)
(* Events (types.go Event).  Params is the parameter bag, a set of         *)
(* <<key, value>> pairs.  Node is the transport-only field.                *)
(***************************************************************************)
Event(name, node, params) ==
    [Name |-> name, Node |-> node, Params |-> params, Reset |-> FALSE]

\* &Event{Reset: true}: every other field has its zero value
ResetEvent == [Name |-> "", Node |-> 0, Params |-> {}, Reset |-> TRUE]

ClientRequestEvent(request, leader) ==
    Event("ClientRequest", leader, {<<"request", request>>, <<"leader", leader>>})

BecomeLeaderEvent(id) == Event("BecomeLeader", id, {<<"node", id>>})

TimeoutEvent(id) == Event("Timeout", id, {<<"node", id>>})

AdvanceCommitIndexEvent(id) == Event("AdvanceCommitIndex", id, {<<"i", id>>})

(***************************************************************************)
(* json.Marshal of an event list: Node carries the tag json:"-" and is     *)
(* left out; Name, Params and Reset are written.                           *)
(***************************************************************************)
MarshalEvent(e) == [Name |-> e.Name, Params |-> e.Params, Reset |-> e.Reset]

MarshalTrace(trace) == [i \in 1..Len(trace) |-> MarshalEvent(trace[i])]

\* trace.Append(&Event{Reset: true}): the list the caller passed, after the call
AppendReset(trace) == Append(trace, ResetEvent)

\* the hash of an event trace: the digest of its serialization, taken to be
\* collision free
TraceHash(trace) == MarshalTrace(trace)

(***************************************************************************)
(* The loop of TLCStateGuider.Check over the states the server returned:   *)
(*     for _, s := range tlcStates {                                       *)
(*         if _, ok := t.statesMap[s.Key]; !ok {                           *)
(*             numNewStates += 1; t.statesMap[s.Key] = true } }            *)
(* A state is represented by its Key (Repr is kept for recording only).    *)
(***************************************************************************)
\* faulty variant: the key is counted but not inserted before the next one
\* is looked at
RECURSIVE CheckLoopMutNoInsert(_, _)
CheckLoopMutNoInsert(map, tlcStates) ==
    IF tlcStates = <<>> THEN [numNewStates |-> 0, statesMap |-> map]
    ELSE LET rest == CheckLoopMutNoInsert(map, Tail(tlcStates))
             key == Head(tlcStates)
         IN  [numNewStates |-> rest.numNewStates + (IF key \in map THEN 0 ELSE 1),
              statesMap |-> rest.statesMap \cup {key}]

\* faulty variant: the map is rebuilt from the reply
CheckLoopMutOverwrite(map, tlcStates) ==
    LET keys == {tlcStates[i] : i \in 1..Len(tlcStates)}
    IN  [numNewStates |-> Cardinality(keys \ map), statesMap |-> keys]

RECURSIVE CheckLoop(_, _)
CheckLoop(map, tlcStates) ==
    IF tlcStates = <<>> THEN [numNewStates |-> 0, statesMap |-> map]
    ELSE LET key == Head(tlcStates)
         IN  IF key \in map
             THEN CheckLoop(map, Tail(tlcStates))
             ELSE LET rest == CheckLoop(map \cup {key}, Tail(tlcStates))
                  IN  [numNewStates |-> rest.numNewStates + 1,
                       statesMap |-> rest.statesMap]

(***************************************************************************)
(* The outcome of Check once SendTrace has answered: on err == nil the     *)
(* loop above and the return of (numNewStates, numNewStates/max(cur,1));   *)
(* otherwise panic("error connecting to tlc").  The gain is kept as the    *)
(* pair numerator, denominator.                                            *)
(***************************************************************************)
\* faulty variant: the error is swallowed and scored as no new state
CheckOutcomeMutSwallow(map, tlcStates, err) ==
    IF ~err
    THEN LET r == CheckLoop(map, tlcStates)
         IN  [panic |-> FALSE, numNewStates |-> r.numNewStates,
              gainDen |-> Max(Cardinality(map), 1), statesMap |-> r.statesMap]
    ELSE [panic |-> FALSE, numNewStates |-> 0,
          gainDen |-> Max(Cardinality(map), 1), statesMap |-> map]

CheckOutcome(map, tlcStates, err) ==
    IF ~err
    THEN LET r == CheckLoop(map, tlcStates)
         IN  [panic |-> FALSE, numNewStates |-> r.numNewStates,
              gainDen |-> Max(Cardinality(map), 1), statesMap |-> r.statesMap]
    ELSE [panic |-> TRUE, numNewStates |-> 0,
          gainDen |-> Max(Cardinality(map), 1), statesMap |-> map]

(***************************************************************************)
(* State.                                                                  *)
(*   statesMap  TLCStateGuider.statesMap: the keys seen so far             *)
(*   tracesMap  the guider's set of trace hashes                           *)
(*   sendCalls  number of TLCClient.SendTrace invocations (requests)       *)
(*   panicked   the process died in panic()                                *)
(*   list       the event-trace list the caller of the Guider holds        *)
(*   last       the latest Check call of that caller: arguments, locals    *)
(*              and result                                                 *)
(*   submitted  how many times that list object was passed to Check        *)
(***************************************************************************)
VARIABLES statesMap, tracesMap, sendCalls, panicked, last, list, submitted

(***************************************************************************)
(* State of the campaign loop (Fuzzer.Run).                                *)
(*   pc                  position in the loop                              *)
(*   iter                the loop variable i                               *)
(*   mutatedTracesQueue  the queue of mutated traces                       *)
(*   trace, eventTrace   the lists the iteration produced                  *)
(*   numNewStates        what Check returned                               *)
(*   numMutations, j     bound and counter of the mutation loop: j is the  *)
(*                       number of Mutate calls made                       *)
(*   okCount             how many of these calls returned ok               *)
(*   queueAtCheck        the queue when Check was called                   *)
(*   statesAtCheck       statesMap when Check was called                   *)
(*   checkFailed         SendTrace returned an error in this iteration     *)
(***************************************************************************)
VARIABLES pc, iter, mutatedTracesQueue, trace, eventTrace, numNewStates,
          numMutations, j, okCount, queueAtCheck, statesAtCheck, checkFailed

(***************************************************************************)
(* State of the raft harness (RaftEnvironment and the fuzz context).       *)
(*   curStates  per node, the role and term of the latest status snapshot  *)
(*   events     the event list of the fuzz context (ctx.AddEvent)          *)
(*   steps      number of steps taken                                      *)
(*   lastStep   the latest step: the node acted on, the snapshot before    *)
(*              it, the committed entries of each ready batch and the      *)
(*              events it added                                            *)
(***************************************************************************)
VARIABLES curStates, events, steps, lastStep

(***************************************************************************)
(* State of the cluster harness around the raft nodes (message queue,      *)
(* crashed nodes).  The statuses and the event list are curStates and      *)
(* events above.                                                           *)
(*   messageQueues  per (sender, receiver) pair, the messages in flight,   *)
(*                  each named by its enqueue number, oldest first         *)
(*   down           the crashed nodes                                      *)
(*   nextId         the enqueue number the next message gets               *)
(*   lastOp         the latest operation: its arguments, what it found and *)
(*                  the cluster as it was before it                        *)
(*   logs           per node, the persisted log: the request ids of its    *)
(*                  entries (0 for the entry of a new leader)              *)
(***************************************************************************)
VARIABLES messageQueues, down, nextId, lastOp, logs

(***************************************************************************)
(* State of the iterations of the driver followed choice by choice         *)
(* (Fuzzer.RunIteration and the mutation loop after it); the loop variable *)
(* of the campaign is iter.                                                *)
(*   runPc         position: "start", "step", "mutate", "done", "panic"    *)
(*                 (Check panicked and Run was unwound)                    *)
(*   runT          the step index t                                        *)
(*   parent        the trace popped from the queue (empty when none)       *)
(*   runTrace      the trace recorded so far                               *)
(*   fresh         per recorded choice, whether the random strategy drew   *)
(*                 it (TRUE) or it was read from the parent (FALSE)        *)
(*   runQueue      the queue of mutated traces                             *)
(*   runMutations  bound of the mutation loop                              *)
(*   runJ          counter of the mutation loop                            *)
(***************************************************************************)
VARIABLES runPc, runT, parent, runTrace, fresh, runQueue, runMutations, runJ

(***************************************************************************)
(* State of the driver checking the invariant hook of the harness.         *)
(*   hookPc    position: "step", "fatal", "done"                           *)
(*   hookIter  the iteration                                               *)
(*   hookT     choices applied in this iteration                           *)
(* The statuses of the nodes are curStates above.                          *)
(***************************************************************************)
VARIABLES hookPc, hookIter, hookT

(***************************************************************************)
(* Traces as the objects they are in the program (pointers to lists of     *)
(* scheduling choices): two variables may hold the same list.              *)
(*   heap       the lists allocated, by reference                          *)
(*   traceRef   the list the variable trace of Fuzzer.Run holds            *)
(*   queueRefs  the lists mutatedTracesQueue holds, in order               *)
(*   lastMut    the latest change made to a list in place: the list, and   *)
(*              the heap before the change                                 *)
(***************************************************************************)
VARIABLES heap, traceRef, queueRefs, lastMut

(***************************************************************************)
(* One call of Mutator.Mutate.                                             *)
(*   mutTrace   the trace handed to the mutator                            *)
(*   mutResult  the operator sampled, the trace returned and ok            *)
(***************************************************************************)
VARIABLES mutTrace, mutResult

(***************************************************************************)
(* State of the pub/sub utility (pubsub/client.go PubSubClient) and of the *)
(* service it talks to.                                                    *)
(*   messageBuffer    c.messageBuffer                                      *)
(*   messageChan      the messages in c.messageChan, oldest first          *)
(*   errorChan        the errors in c.errorChan                            *)
(*   ackMode          c.ackMode                                            *)
(*   chanCap          cap(c.messageChan), fixed when the client is made    *)
(*   cancelled        c.ctx is cancelled                                   *)
(*   onceDone         c.receiverOnce has run its function                  *)
(*   onceBusy         the goroutine running the function of the Once (0    *)
(*                    when none)                                           *)
(*   receiverStarted  c.receiverStarted                                    *)
(*   rcvPc            the receiver goroutine: "none", "running" (in        *)
(*                    Receive), "ending" (Receive met an error and waits   *)
(*                    for its callbacks), "deferred" (Receive returned,    *)
(*                    the deferred function has not run), "exited"         *)
(*   rpc              per goroutine calling ReceiveMessage: "idle",        *)
(*                    "start" (found the buffer empty), "launch" (set      *)
(*                    receiverStarted inside the Once), "ctx" (back from   *)
(*                    startContinuousReceiver), "wait" (in the select)     *)
(*   calls            ReceiveMessage calls made                            *)
(*   returns          the messages ReceiveMessage returned, in order       *)
(*   lastRet          per calling goroutine, what its latest call returned *)
(*                    and the buffer it found; afterClose: c.ctx was       *)
(*                    cancelled when the call began; startedCancelled: it  *)
(*                    was when the call made its context                   *)
(*   origin           per message number, how the message was made         *)
(*   pending          the messages the service holds for delivery          *)
(*   deliveries       per message, how often the service delivered it      *)
(*   inCallback       the message objects whose callback passed its first  *)
(*                    select                                               *)
(*   acked, nacked    the message objects on which Ack, Nack was called    *)
(*   lastPublish      the latest PublishMessage call that returned         *)
(*   publishing       the PublishMessage call blocked in result.Get        *)
(*   starts           receiver goroutines launched                         *)
(*   closePc          the goroutine calling Close: "none", "stop" (c.ctx   *)
(*                    is cancelled, the topic not yet stopped), "poll" (in *)
(*                    the loop that waits for the receiver), "closed"      *)
(*   polls            how often that loop read receiverStarted             *)
(*   sleeps           how often that loop slept                            *)
(* A message object is named by the number of its message and the number   *)
(* of the delivery that made it (0 for an object the test made).           *)
(***************************************************************************)
VARIABLES messageBuffer, messageChan, errorChan, ackMode, chanCap, cancelled,
          onceDone, onceBusy, receiverStarted, rcvPc, rpc, calls, returns,
          lastRet, starts, origin, pending, deliveries, inCallback, acked,
          nacked, lastPublish, publishing, closePc, polls, sleeps

guiderVars == <<statesMap, tracesMap, sendCalls, panicked>>
callerVars == <<last, list, submitted>>
driverVars == <<pc, iter, mutatedTracesQueue, trace, eventTrace, numNewStates,
                numMutations, j, okCount, queueAtCheck, statesAtCheck,
                checkFailed>>
harnessVars == <<curStates, events, steps, lastStep>>
clusterVars == <<messageQueues, down, nextId, lastOp, logs>>
runVars == <<runPc, runT, parent, runTrace, fresh, runQueue, runMutations,
             runJ>>
hookVars == <<hookPc, hookIter, hookT>>
copyVars == <<heap, traceRef, queueRefs, lastMut>>
mutVars == <<mutTrace, mutResult>>
clientVars == <<messageBuffer, messageChan, errorChan, ackMode, chanCap, cancelled,
                onceDone, onceBusy, receiverStarted, rcvPc, rpc, calls,
                returns, lastRet, starts>>
serviceVars == <<origin, pending, deliveries, inCallback, acked, nacked,
                 lastPublish, publishing>>
closeVars == <<closePc, polls, sleeps>>
pubsubVars == <<clientVars, serviceVars, closeVars>>
\* what the pub/sub utility leaves alone
fuzzVars == <<guiderVars, callerVars, driverVars, harnessVars, clusterVars,
              runVars, hookVars, copyVars, mutVars>>
vars == <<fuzzVars, pubsubVars>>

Keys == 1..MaxKey

\* sequences over S of length 0..n
RECURSIVE SeqsUpTo(_, _)
SeqsUpTo(S, n) ==
    IF n = 0 THEN {<<>>}
    ELSE LET shorter == SeqsUpTo(S, n - 1)
         IN  shorter \cup {Append(s, x) : s \in shorter, x \in S}

\* what the model server may answer: any list of states (keys), repeats included
Replies == SeqsUpTo(Keys, MaxReply)

\* the events of the traces handed to the guider
SampleEvents == {TimeoutEvent(1)}

EventTraces == SeqsUpTo(SampleEvents, MaxEvents)

NoCall ==
    [called |-> FALSE, again |-> FALSE, hashSeen |-> FALSE, body |-> <<>>,
     err |-> FALSE, before |-> {}, tlcStates |-> <<>>, returned |-> FALSE,
     numNewStates |-> 0, gainDen |-> 1, sendCallsBefore |-> 0]

GuiderInit ==
    /\ statesMap = {}
    /\ tracesMap = {}
    /\ sendCalls = 0
    /\ panicked = FALSE

(***************************************************************************)
(* TLCStateGuider.Check(trace, eventTrace) with TLCClient.SendTrace inside *)
(* it.  The hash is computed and recorded, then SendTrace is called:       *)
(* it appends the Reset event to the list it was given, marshals the list  *)
(* and posts it.  The server is outside the program: err tells whether the *)
(* call failed, tlcStates is the list of states it answered.  The list the *)
(* caller holds afterwards is AppendReset(evs): the caller's action        *)
(* records it.                                                             *)
(***************************************************************************)
Check(evs, err, tlcStates) ==
    LET out == CheckOutcome(statesMap, tlcStates, err)
    IN  /\ ~panicked
        /\ tracesMap' = tracesMap \cup {TraceHash(evs)}
        /\ sendCalls' = sendCalls + 1
        /\ statesMap' = out.statesMap
        /\ panicked' = out.panic

\* what the server may do with a request: fail, or answer a list of states
ServerOutcomes ==
    {<<TRUE, <<>>>>} \cup {<<FALSE, tlcStates>> : tlcStates \in Replies}

\* the record of a Check call: its arguments, its locals and its result.
\* `again` tells whether the list object was passed to Check before.
CallRecord(evs, again, err, tlcStates) ==
    LET out == CheckOutcome(statesMap, tlcStates, err)
    IN  [called |-> TRUE, again |-> again,
         hashSeen |-> TraceHash(evs) \in tracesMap,
         body |-> MarshalTrace(AppendReset(evs)), err |-> err,
         before |-> statesMap, tlcStates |-> tlcStates,
         returned |-> ~out.panic, numNewStates |-> out.numNewStates,
         gainDen |-> out.gainDen, sendCallsBefore |-> sendCalls]

(***************************************************************************)
(* SpecGuider: a caller of the Guider interface.                           *)
(***************************************************************************)
CallerInit ==
    /\ last = NoCall
    /\ list \in EventTraces
    /\ submitted = 0

CallerIdle ==
    /\ last = NoCall
    /\ list = <<>>
    /\ submitted = 0

\* the caller builds a new event-trace list
ApiNewList ==
    /\ ~panicked
    /\ submitted > 0
    /\ sendCalls < MaxChecks
    /\ \E content \in EventTraces : list' = content
    /\ submitted' = 0
    /\ UNCHANGED <<last, guiderVars, driverVars, harnessVars, clusterVars, runVars, hookVars,
                 copyVars, mutVars, pubsubVars>>

\* guider.Check(trace, list)
ApiCheck ==
    /\ sendCalls < MaxChecks
    /\ \E o \in ServerOutcomes :
          /\ Check(list, o[1], o[2])
          /\ last' = CallRecord(list, submitted > 0, o[1], o[2])
    /\ list' = AppendReset(list)
    /\ submitted' = submitted + 1
    /\ UNCHANGED <<driverVars, harnessVars, clusterVars, runVars, hookVars,
                 copyVars, mutVars, pubsubVars>>

(***************************************************************************)
(* The campaign loop (Fuzzer.Run).                                         *)
(***************************************************************************)
Nodes == 1..NumNodes

\* a choice carries the tag it was given when it was recorded: Consumed tells
\* whether the run came to use it; a node choice is applied by the driver
NodeChoice(n) == [Type |-> "Node", NodeID |-> n, Consumed |-> TRUE]

Choices == {NodeChoice(n) : n \in Nodes}

\* the traces the random strategy produces: Horizon choices
RandomTraces == [1..Horizon -> Choices]

\* defaultCopyFilter(): keeps the choices the run consumed; a draw that was
\* generated and never consumed is dropped
DefaultCopyFilter(choice) == choice.Consumed

IsNodeChoice(choice) == choice.Type = "Node"

\* copyTrace(trace, defaultCopyFilter()): a new list of the choices kept
CopyTrace(t) == SelectSeq(t, DefaultCopyFilter)

\* what Mutator.Mutate(trace, eventTrace) may return as the new trace: the
\* trace with its first two choices swapped (a trace too short is returned
\* as it is)
MutatorResults(t) ==
    IF Len(t) >= 2
    THEN {[i \in 1..Len(t) |->
              IF i = 1 THEN t[2] ELSE IF i = 2 THEN t[1] ELSE t[i]]}
    ELSE {t}

\* faulty variant: MutPerTrace is left out
NumMutationsMutNoFactor(n) == n

\* numMutations := numNewStates * f.config.MutPerTrace
NumMutations(n) == n * MutPerTrace

\* faulty variant: a trace that found nothing is mutated like one that found
\* one new state
LoopBoundMutFloor(n) == NumMutations(Max(n, 1))

\* the turns of the mutation loop after a score of n new states:
\* if numNewStates > 0 { numMutations := ...; for j := 0; j < numMutations
LoopBound(n) == IF n > 0 THEN NumMutations(n) ELSE 0

\* faulty variant: the copy is pushed whatever ok is
PushIfOkMutAlways(queue, new, ok) == Append(queue, CopyTrace(new))

\* if ok { f.mutatedTracesQueue.Push(copyTrace(new, defaultCopyFilter())) }
PushIfOk(queue, new, ok) ==
    IF ok THEN Append(queue, CopyTrace(new)) ELSE queue

DriverInit ==
    /\ pc = "iter"
    /\ iter = 0
    /\ mutatedTracesQueue = <<>>
    /\ trace = <<>>
    /\ eventTrace = <<>>
    /\ numNewStates = 0
    /\ numMutations = 0
    /\ j = 0
    /\ okCount = 0
    /\ queueAtCheck = <<>>
    /\ statesAtCheck = {}
    /\ checkFailed = FALSE

\* the head of an iteration: the parent trace is popped from the queue of
\* mutated traces (empty parent when the queue is empty), the cluster is
\* reset and the trace is run: the parent is replayed and the random strategy
\* fills what is left of the horizon.  The events the run emits are a list
\* built for this iteration.
StartIteration ==
    /\ pc = "iter"
    /\ iter < Iterations
    /\ IF mutatedTracesQueue = <<>>
       THEN /\ trace' \in RandomTraces
            /\ UNCHANGED mutatedTracesQueue
       ELSE /\ trace' = Head(mutatedTracesQueue)
            /\ mutatedTracesQueue' = Tail(mutatedTracesQueue)
    /\ eventTrace' \in EventTraces
    /\ pc' = "check"
    /\ UNCHANGED <<iter, numNewStates, numMutations, j, okCount, queueAtCheck,
                   statesAtCheck, checkFailed>>
    /\ UNCHANGED <<guiderVars, callerVars, harnessVars, clusterVars, runVars, hookVars,
                 copyVars, mutVars, pubsubVars>>

\* if numNewStates, _ := f.config.Guider.Check(trace, eventTrace);
\*    numNewStates > 0 { numMutations := numNewStates * MutPerTrace; j := 0
\* A panic in Check unwinds Run: the loop is left for good.
DriverCheck ==
    /\ pc = "check"
    /\ \E o \in ServerOutcomes :
          LET out == CheckOutcome(statesMap, o[2], o[1])
          IN  /\ Check(eventTrace, o[1], o[2])
              /\ checkFailed' = o[1]
              /\ IF out.panic
                 THEN /\ pc' = "panic"
                      /\ UNCHANGED <<numNewStates, numMutations>>
                 ELSE /\ pc' = "mutate"
                      /\ numNewStates' = out.numNewStates
                      /\ numMutations' = LoopBound(out.numNewStates)
    /\ eventTrace' = AppendReset(eventTrace)
    /\ queueAtCheck' = mutatedTracesQueue
    /\ statesAtCheck' = statesMap
    /\ okCount' = 0
    /\ j' = 0
    /\ UNCHANGED <<iter, mutatedTracesQueue, trace>>
    /\ UNCHANGED <<callerVars, harnessVars, clusterVars, runVars, hookVars,
                 copyVars, mutVars, pubsubVars>>

\* one pass of: for j := 0; j < numMutations; j++ {
\*     new, ok := f.config.Mutator.Mutate(trace, eventTrace)
\*     if ok { push the copy } }
MutateStep ==
    /\ pc = "mutate"
    /\ j < numMutations
    /\ \E ok \in BOOLEAN : \E new \in MutatorResults(trace) :
          /\ mutatedTracesQueue' = PushIfOk(mutatedTracesQueue, new, ok)
          /\ okCount' = okCount + (IF ok THEN 1 ELSE 0)
    /\ j' = j + 1
    /\ UNCHANGED <<pc, iter, trace, eventTrace, numNewStates, numMutations,
                   queueAtCheck, statesAtCheck, checkFailed>>
    /\ UNCHANGED <<guiderVars, callerVars, harnessVars, clusterVars, runVars, hookVars,
                 copyVars, mutVars, pubsubVars>>

\* j < numMutations is false (or the if was not entered): the body of the
\* iteration is over
LoopExit ==
    /\ pc = "mutate"
    /\ j >= numMutations
    /\ pc' = "record"
    /\ UNCHANGED <<iter, mutatedTracesQueue, trace, eventTrace, numNewStates,
                   numMutations, j, okCount, queueAtCheck, statesAtCheck,
                   checkFailed>>
    /\ UNCHANGED <<guiderVars, callerVars, harnessVars, clusterVars, runVars, hookVars,
                 copyVars, mutVars, pubsubVars>>

\* i++: the variables declared in the body of the loop go out of scope
NextIteration ==
    /\ pc = "record"
    /\ iter' = iter + 1
    /\ pc' = "iter"
    /\ trace' = <<>>
    /\ eventTrace' = <<>>
    /\ numNewStates' = 0
    /\ numMutations' = 0
    /\ j' = 0
    /\ okCount' = 0
    /\ queueAtCheck' = <<>>
    /\ statesAtCheck' = {}
    /\ UNCHANGED <<mutatedTracesQueue, checkFailed>>
    /\ UNCHANGED <<guiderVars, callerVars, harnessVars, clusterVars, runVars, hookVars,
                 copyVars, mutVars, pubsubVars>>

(***************************************************************************)
(* The raft harness (raft.go): event emission.                             *)
(***************************************************************************)
StateFollower == "StateFollower"
StateCandidate == "StateCandidate"
StateLeader == "StateLeader"

RaftStates == {StateFollower, StateCandidate, StateLeader}

Status(state, term) == [RaftState |-> state, Term |-> term]

\* faulty variant: oldTerm <= newTerm in place of oldTerm < newTerm
DiffEventsMutTermLeq(id, old, new, oldTerm, newTerm) ==
    IF old # new /\ new = StateLeader
    THEN <<BecomeLeaderEvent(id), ClientRequestEvent(0, id)>>
    ELSE IF \/ old # new /\ new = StateCandidate
            \/ oldTerm <= newTerm /\ old = new /\ new = StateCandidate
         THEN <<TimeoutEvent(id)>>
         ELSE <<>>

\* faulty variant: old != new is not asked before BecomeLeader
DiffEventsMutNoOldCheck(id, old, new, oldTerm, newTerm) ==
    IF new = StateLeader
    THEN <<BecomeLeaderEvent(id), ClientRequestEvent(0, id)>>
    ELSE IF \/ old # new /\ new = StateCandidate
            \/ oldTerm < newTerm /\ old = new /\ new = StateCandidate
         THEN <<TimeoutEvent(id)>>
         ELSE <<>>

\* faulty variant: Timeout is emitted for a candidate whose term grew only,
\* not for a node that turns candidate
DiffEventsMutTermOnly(id, old, new, oldTerm, newTerm) ==
    IF old # new /\ new = StateLeader
    THEN <<BecomeLeaderEvent(id), ClientRequestEvent(0, id)>>
    ELSE IF oldTerm < newTerm /\ old = new /\ new = StateCandidate
         THEN <<TimeoutEvent(id)>>
         ELSE <<>>

\* raft.go 175-198: the diff of role and term of node id between the
\* snapshot kept (old, oldTerm) and its status now (new, newTerm)
DiffEvents(id, old, new, oldTerm, newTerm) ==
    IF old # new /\ new = StateLeader
    THEN <<BecomeLeaderEvent(id), ClientRequestEvent(0, id)>>
    ELSE IF \/ old # new /\ new = StateCandidate
            \/ oldTerm < newTerm /\ old = new /\ new = StateCandidate
         THEN <<TimeoutEvent(id)>>
         ELSE <<>>

\* faulty variant: one event per committed entry
CommitEventsMutPerEntry(id, numCommitted) ==
    [i \in 1..numCommitted |-> AdvanceCommitIndexEvent(id)]

\* raft.go 152-159: if len(ready.CommittedEntries) > 0 { AdvanceCommitIndex }
CommitEvents(id, numCommitted) ==
    IF numCommitted > 0 THEN <<AdvanceCommitIndexEvent(id)>> ELSE <<>>

\* the ready batches of nodes 1..n, node by node
RECURSIVE ReadyEvents(_, _)
ReadyEvents(ready, n) ==
    IF n = 0 THEN <<>>
    ELSE ReadyEvents(ready, n - 1) \o CommitEvents(n, ready[n])

\* the status diff of nodes 1..n, node by node
RECURSIVE StatusEvents(_, _, _)
StatusEvents(oldStates, newStates, n) ==
    IF n = 0 THEN <<>>
    ELSE StatusEvents(oldStates, newStates, n - 1)
         \o DiffEvents(n, oldStates[n].RaftState, newStates[n].RaftState,
                       oldStates[n].Term, newStates[n].Term)

\* the events of one step: those of the ready batches (raft.go 152-159) and
\* those of the status diff (raft.go 175-198). The excerpts show the two
\* blocks apart and not the order in which a step runs them: readyFirst says
\* whether the ready batches are handled before the statuses are compared.
StepEvents(oldStates, newStates, ready, readyFirst) ==
    IF readyFirst
    THEN ReadyEvents(ready, NumNodes) \o StatusEvents(oldStates, newStates, NumNodes)
    ELSE StatusEvents(oldStates, newStates, NumNodes) \o ReadyEvents(ready, NumNodes)

NoStep == [node |-> 0, old |-> [n \in Nodes |-> Status(StateFollower, 0)],
           ready |-> [n \in Nodes |-> 0], emitted |-> <<>>]

HarnessInit ==
    /\ curStates = [n \in Nodes |-> Status(StateFollower, 0)]
    /\ events = <<>>
    /\ steps = 0
    /\ lastStep = NoStep

HarnessIdle == HarnessInit

\* one step on node n, tick(n) or deliver(from, n, index): the raft library
\* moves the node to some status (its term never decreases) and hands out a
\* ready batch with some number of committed entries; the harness handles
\* the ready batch and compares the statuses with the snapshot, in one order
\* or the other, and keeps the new statuses as the snapshot.
HarnessStep ==
    /\ steps < MaxSteps
    /\ \E n \in Nodes : \E state \in RaftStates :
       \E term \in curStates[n].Term..MaxTerm : \E committed \in 0..MaxCommitted :
       \E readyFirst \in BOOLEAN :
          LET newStates == [curStates EXCEPT ![n] = Status(state, term)]
              ready == [m \in Nodes |-> IF m = n THEN committed ELSE 0]
              emitted == StepEvents(curStates, newStates, ready, readyFirst)
          IN  /\ events' = events \o emitted
              /\ curStates' = newStates
              /\ lastStep' = [node |-> n, old |-> curStates, ready |-> ready,
                              emitted |-> emitted]
    /\ steps' = steps + 1
    /\ UNCHANGED <<guiderVars, callerVars, driverVars, clusterVars, runVars, hookVars,
                 copyVars, mutVars, pubsubVars>>

(***************************************************************************)
(* The cluster harness: message queue, crash and restart, client requests. *)
(* An operation on a running node steps the raft library, which moves the  *)
(* node to a new status, hands out a ready batch and sends messages; the   *)
(* events of the step are StepEvents above.                                *)
(***************************************************************************)
Pairs == {p \in Nodes \X Nodes : p[1] # p[2]}

\* the node a stepped node sends its messages to
Peer(n) == (n % NumNodes) + 1

\* what one step of the library may do to a node of status st: stay or fall
\* back to follower, time out into a candidacy of the next term, or win the
\* election of its term; hand out a ready batch with or without committed
\* entries; send 0..MaxOut messages
LibOutcomes(st) ==
    {[status |-> ns, committed |-> c, out |-> k] :
        ns \in {Status(StateFollower, st.Term),
                Status(StateCandidate, IF st.Term < MaxTerm THEN st.Term + 1
                                       ELSE st.Term),
                Status(StateLeader, st.Term)},
        c \in 0..1, k \in 0..MaxOut}

\* the one outcome of a tick under the deterministic library contract: a
\* follower times out into a candidacy of the next term, a candidate wins
\* its election, a leader stays leader
DetTick(st) ==
    IF st.RaftState = StateFollower THEN Status(StateCandidate, st.Term + 1)
    ELSE Status(StateLeader, st.Term)

\* faulty variant: a crashed node is stepped like a running one
LiveMutAlways(dn, n) == TRUE

\* node n is running (not crashed)
Live(dn, n) == n \notin dn

\* faulty variant: an index past the end takes the last message
DequeueMutClamp(q, index) ==
    IF Len(q) = 0
    THEN [found |-> FALSE, msg |-> 0, rest |-> q]
    ELSE LET i == IF index < Len(q) THEN index + 1 ELSE Len(q)
         IN  [found |-> TRUE, msg |-> q[i],
              rest |-> SubSeq(q, 1, i - 1) \o SubSeq(q, i + 1, Len(q))]

\* the index-th message (from 0) of a pair's queue and the queue without it;
\* found is FALSE and the queue is as it was when there is no such message
Dequeue(q, index) ==
    IF index < Len(q)
    THEN [found |-> TRUE, msg |-> q[index + 1],
          rest |-> SubSeq(q, 1, index) \o SubSeq(q, index + 2, Len(q))]
    ELSE [found |-> FALSE, msg |-> 0, rest |-> q]

\* the k messages numbered from id, oldest first
NewMessages(id, k) == [i \in 1..k |-> id + i - 1]

\* the leader a client request goes to: among the running nodes whose status
\* is leader, one of the highest term, the lowest id breaking ties; 0 when
\* there is none
SelectLeader(states, dn) ==
    LET leaders == {n \in Nodes : Live(dn, n) /\ states[n].RaftState = StateLeader}
        top == {n \in leaders : \A m \in leaders : states[m].Term <= states[n].Term}
    IN  IF leaders = {} THEN 0
        ELSE CHOOSE n \in top : \A m \in top : n <= m

\* faulty variant: the event is added whether or not the proposal was taken
ClientRequestEventsMutOnError(request, leader, err) ==
    IF leader = 0 THEN <<>> ELSE <<ClientRequestEvent(request, leader)>>

\* the events of client_request(request): one ClientRequest event when there
\* is a leader and the library took the proposal
ClientRequestEvents(request, leader, err) ==
    IF leader = 0 \/ err THEN <<>> ELSE <<ClientRequestEvent(request, leader)>>

Before == [curStates |-> curStates, events |-> events, queue |-> messageQueues,
           down |-> down, logs |-> logs]

OpRecord(op, node, from, index, request, found, msg, leader, err) ==
    [op |-> op, node |-> node, from |-> from, index |-> index,
     request |-> request, found |-> found, msg |-> msg, leader |-> leader,
     err |-> err, reported |-> FALSE, before |-> Before]

NoOp == [op |-> "none", node |-> 0, from |-> 0, index |-> 0, request |-> 0,
         found |-> FALSE, msg |-> 0, leader |-> 0, err |-> FALSE,
         reported |-> FALSE,
         before |-> [curStates |-> [n \in Nodes |-> Status(StateFollower, 0)],
                     events |-> <<>>, queue |-> [p \in Pairs |-> <<>>],
                     down |-> {}, logs |-> [n \in Nodes |-> <<>>]]]

\* reset: fresh nodes, empty queue, nobody crashed
ClusterInit ==
    /\ messageQueues = [p \in Pairs |-> <<>>]
    /\ down = {}
    /\ nextId = 1
    /\ lastOp = NoOp
    /\ logs = [n \in Nodes |-> <<>>]

ClusterIdle == ClusterInit

\* the persisted log of a node after a step that took it from status old to
\* status new: a node that became leader appends the entry of a new leader
LogAfterStep(log, old, new) ==
    IF old.RaftState # StateLeader /\ new.RaftState = StateLeader
    THEN Append(log, 0) ELSE log

\* the step of the library on running node n with outcome o: new status,
\* events of the step, messages sent; q is the queue the step starts from
LibStep(n, o, q) ==
    LET newStates == [curStates EXCEPT ![n] = o.status]
        ready == [m \in Nodes |-> IF m = n THEN o.committed ELSE 0]
    IN  /\ curStates' = newStates
        /\ \E readyFirst \in BOOLEAN :
              events' = events \o StepEvents(curStates, newStates, ready, readyFirst)
        /\ messageQueues' = [q EXCEPT ![<<n, Peer(n)>>] = @ \o NewMessages(nextId, o.out)]
        /\ nextId' = nextId + o.out
        /\ logs' = [logs EXCEPT ![n] = LogAfterStep(@, curStates[n], o.status)]

\* tick(n)
Tick(n) ==
    /\ steps' = steps + 1
    /\ lastOp' = OpRecord("tick", n, 0, 0, 0, FALSE, 0, 0, FALSE)
    /\ IF Live(down, n)
       THEN \E o \in LibOutcomes(curStates[n]) : LibStep(n, o, messageQueues)
       ELSE UNCHANGED <<curStates, events, messageQueues, nextId, logs>>
    /\ UNCHANGED <<down, lastStep>>
    /\ UNCHANGED <<guiderVars, callerVars, driverVars, runVars, hookVars,
                   copyVars, mutVars, pubsubVars>>

\* deliver(from, to, index)
Deliver(from, to, index) ==
    LET d == Dequeue(messageQueues[<<from, to>>], index)
    IN  /\ steps' = steps + 1
        /\ IF Live(down, to) /\ d.found
           THEN /\ lastOp' = OpRecord("deliver", to, from, index, 0, TRUE,
                                      d.msg, 0, FALSE)
                /\ \E o \in LibOutcomes(curStates[to]) :
                      LibStep(to, o, [messageQueues EXCEPT ![<<from, to>>] = d.rest])
           ELSE /\ lastOp' = OpRecord("deliver", to, from, index, 0, FALSE,
                                      0, 0, FALSE)
                /\ UNCHANGED <<curStates, events, messageQueues, nextId, logs>>
        /\ UNCHANGED <<down, lastStep>>
        /\ UNCHANGED <<guiderVars, callerVars, driverVars, runVars, hookVars,
                   copyVars, mutVars, pubsubVars>>

\* crash(n): the node is down, the messages it sent are dropped, its
\* persisted log is kept
CrashNode(n) ==
    /\ n \notin down
    /\ steps' = steps + 1
    /\ down' = down \cup {n}
    /\ messageQueues' = [p \in Pairs |-> IF p[1] = n THEN <<>> ELSE messageQueues[p]]
    /\ lastOp' = OpRecord("crash", n, 0, 0, 0, FALSE, 0, 0, FALSE)
    /\ UNCHANGED <<curStates, events, nextId, lastStep, logs>>
    /\ UNCHANGED <<guiderVars, callerVars, driverVars, runVars, hookVars,
                   copyVars, mutVars, pubsubVars>>

\* faulty variant: the node is made anew, as new_node makes it
RestartStatusMutFresh(st) == Status(StateFollower, 0)

\* the status of a node that is restarted: the volatile state is cleared
\* (role Follower), the term is kept
RestartStatus(st) == Status(StateFollower, st.Term)

\* restart(n): the node runs again, made from its persisted log
RestartNode(n) ==
    /\ n \in down
    /\ steps' = steps + 1
    /\ down' = down \ {n}
    /\ curStates' = [curStates EXCEPT ![n] = RestartStatus(@)]
    /\ lastOp' = OpRecord("restart", n, 0, 0, 0, FALSE, 0, 0, FALSE)
    /\ UNCHANGED <<events, messageQueues, nextId, lastStep, logs>>
    /\ UNCHANGED <<guiderVars, callerVars, driverVars, runVars, hookVars,
                   copyVars, mutVars, pubsubVars>>

\* client_request(request): err is the library rejecting the proposal
ClientRequest(request, err) ==
    LET leader == SelectLeader(curStates, down)
    IN  /\ steps' = steps + 1
        /\ events' = events \o ClientRequestEvents(request, leader, err)
        /\ lastOp' = OpRecord("client_request", leader, 0, 0, request, FALSE,
                              0, leader, leader # 0 /\ err)
        /\ logs' = IF leader = 0 \/ err THEN logs
                   ELSE [logs EXCEPT ![leader] = Append(@, request)]
        /\ UNCHANGED <<curStates, messageQueues, down, nextId, lastStep>>
        /\ UNCHANGED <<guiderVars, callerVars, driverVars, runVars, hookVars,
                   copyVars, mutVars, pubsubVars>>

\* one operation on the cluster, whichever the scheduler chooses
ClusterOp ==
    \/ \E n \in Nodes : Tick(n)
    \/ \E p \in Pairs : \E index \in 0..MaxOut : Deliver(p[1], p[2], index)
    \/ \E n \in Nodes : CrashNode(n)
    \/ \E n \in Nodes : RestartNode(n)
    \/ \E request \in 1..MaxRequest : \E err \in BOOLEAN : ClientRequest(request, err)

TickOp == steps < MaxSteps /\ \E n \in Nodes : Tick(n)

DeliverOp ==
    steps < MaxSteps /\ \E p \in Pairs : \E index \in 0..MaxOut : Deliver(p[1], p[2], index)

CrashOp == steps < MaxSteps /\ \E n \in Nodes : CrashNode(n)

RestartOp == steps < MaxSteps /\ \E n \in Nodes : RestartNode(n)

ClientRequestOp ==
    steps < MaxSteps /\ \E request \in 1..MaxRequest : \E err \in BOOLEAN :
                            ClientRequest(request, err)

(***************************************************************************)
(* A run that elects, crashes and restarts nodes: the library is the       *)
(* deterministic one of DetTick, so that a node is leader after two ticks. *)
(***************************************************************************)
\* tick(n) with the deterministic library
ElectionTick ==
    /\ steps < MaxRestartSteps
    /\ \E n \in Nodes :
          /\ lastOp' = OpRecord("tick", n, 0, 0, 0, FALSE, 0, 0, FALSE)
          /\ IF Live(down, n)
             THEN LibStep(n, [status |-> DetTick(curStates[n]), committed |-> 0,
                              out |-> 0], messageQueues)
             ELSE UNCHANGED <<curStates, events, messageQueues, nextId, logs>>
    /\ steps' = steps + 1
    /\ UNCHANGED <<down, lastStep>>
    /\ UNCHANGED <<guiderVars, callerVars, driverVars, runVars, hookVars,
                   copyVars, mutVars, pubsubVars>>

CrashAny == steps < MaxRestartSteps /\ \E n \in Nodes : CrashNode(n)

RestartAny == steps < MaxRestartSteps /\ \E n \in Nodes : RestartNode(n)

(***************************************************************************)
(* The iterations of the driver, step by step: the strategy replays the    *)
(* parent trace and draws at random when the parent is exhausted; the      *)
(* choice of a step is a node to tick, and the draws the strategy makes on *)
(* its way to it are recorded with it; the trace is then scored and its    *)
(* mutants are queued for the iterations that follow.                      *)
(***************************************************************************)
BooleanChoice(b, c) == [Type |-> "RandomBoolean", Value |-> b, Consumed |-> c]

IntegerChoice(v, c) == [Type |-> "RandomInteger", Value |-> v, Consumed |-> c]

\* what the random strategy may record: a node choice, or a draw that the
\* run consumes or does not come to consume
RunChoices ==
    Choices \cup {BooleanChoice(b, c) : b \in BOOLEAN, c \in BOOLEAN}
        \cup {IntegerChoice(v, c) : v \in 0..1, c \in BOOLEAN}

Positions(t, type) == {i \in 1..Len(t) : t[i].Type = type}

\* faulty variant: the second entry is overwritten with the first, the first
\* is left as it was
SwapNodesMutOverwrite(t) ==
    {[t EXCEPT ![k] = t[i]] :
        <<i, k>> \in {p \in Positions(t, "Node") \X Positions(t, "Node") :
                         p[1] < p[2]}}

\* swap-nodes: two Node entries at different positions change places
SwapNodes(t) ==
    {[t EXCEPT ![i] = t[k], ![k] = t[i]] :
        <<i, k>> \in {p \in Positions(t, "Node") \X Positions(t, "Node") :
                         p[1] < p[2]}}

\* flip-boolean: one RandomBoolean entry is inverted
FlipBoolean(t) ==
    {[t EXCEPT ![i] = BooleanChoice(~t[i].Value, t[i].Consumed)] :
        i \in Positions(t, "RandomBoolean")}

\* bump-integer: one RandomInteger entry is drawn again
BumpInteger(t) ==
    {[t EXCEPT ![i] = IntegerChoice(v, t[i].Consumed)] :
        i \in Positions(t, "RandomInteger"), v \in 0..1}

\* truncate-and-extend: a suffix is cut (the driver fills it at random)
Truncate(t) == {SubSeq(t, 1, n) : n \in 0..(Len(t) - 1)}

\* Mutate(trace, eventTrace): the new trace and ok; ok is false when the
\* trace is too short for the operator sampled
Mutations(t) ==
    LET results == SwapNodes(t) \cup FlipBoolean(t) \cup BumpInteger(t)
                       \cup Truncate(t) \cup {t}
        failed == IF \/ SwapNodes(t) = {} \/ FlipBoolean(t) = {}
                     \/ BumpInteger(t) = {} \/ Truncate(t) = {}
                  THEN {[new |-> t, ok |-> FALSE]} ELSE {}
    IN  {[new |-> m, ok |-> TRUE] : m \in results} \cup failed

MutOps == {"swap_nodes", "flip_boolean", "bump_integer", "truncate", "identity"}

\* what the operator op makes of trace t
OpResults(op, t) ==
    IF op = "swap_nodes" THEN SwapNodes(t)
    ELSE IF op = "flip_boolean" THEN FlipBoolean(t)
    ELSE IF op = "bump_integer" THEN BumpInteger(t)
    ELSE IF op = "truncate" THEN Truncate(t)
    ELSE {t}

\* Mutate(trace, eventTrace) once the operator op is sampled: the new trace
\* and ok; ok is false, and the trace is handed back, when the trace has no
\* position for the operator
MutateWith(op, t) ==
    IF OpResults(op, t) = {} THEN {[new |-> t, ok |-> FALSE]}
    ELSE {[new |-> m, ok |-> TRUE] : m \in OpResults(op, t)}

\* faulty variant: the last choice of the parent is not replayed
NextChoicesMutSkipLast(p, t) ==
    IF t + 1 < Len(p) THEN {p[t + 1]} ELSE RunChoices

\* replay-with-tail: the choice that follows t recorded choices, read from
\* the parent p while it lasts, drawn at random after that
NextChoices(p, t) ==
    IF t < Len(p) THEN {p[t + 1]} ELSE RunChoices

\* what one step may record after t recorded choices, when the strategy has
\* made d draws of its own in this iteration: the draws of the step, each
\* recorded (at most MaxDraws random ones in an iteration), and then the
\* node choice of the step
RECURSIVE StepChoices(_, _, _)
StepChoices(p, t, d) ==
    UNION {IF IsNodeChoice(choice) THEN {<<choice>>}
           ELSE {<<choice>> \o rest :
                    rest \in StepChoices(p, t + 1,
                                         IF t < Len(p) THEN d ELSE d + 1)} :
              choice \in {c \in NextChoices(p, t) :
                            IsNodeChoice(c) \/ t < Len(p) \/ d < MaxDraws}}

\* the draws of the random strategy among the choices recorded
RandomDraws(t, f) ==
    Cardinality({i \in DOMAIN t : f[i] /\ ~IsNodeChoice(t[i])})

\* for step t = 0..H-1
MoreSteps(t) == t < Horizon

\* reset: fresh nodes
FreshNodes == [n \in Nodes |-> Status(StateFollower, 0)]

\* a new fuzzer: the queue of mutated traces is empty
RunInit ==
    /\ runPc = "start"
    /\ runT = 0
    /\ parent = <<>>
    /\ runTrace = <<>>
    /\ fresh = <<>>
    /\ runQueue = <<>>
    /\ runMutations = 0
    /\ runJ = 0

RunIdle ==
    /\ runPc = "done"
    /\ runT = 0
    /\ parent = <<>>
    /\ runTrace = <<>>
    /\ fresh = <<>>
    /\ runQueue = <<>>
    /\ runMutations = 0
    /\ runJ = 0

\* for i := 0; i < Iterations; i++ {
\* step 1: pop a parent trace from the queue; empty parent when it is empty
\* step 2: reset the cluster
StartRun ==
    /\ runPc = "start"
    /\ iter < Iterations
    /\ runPc' = "step"
    /\ IF runQueue = <<>>
       THEN parent' = <<>> /\ UNCHANGED runQueue
       ELSE parent' = Head(runQueue) /\ runQueue' = Tail(runQueue)
    /\ curStates' = FreshNodes
    /\ events' = <<>>
    /\ UNCHANGED <<runT, runTrace, fresh, runMutations, runJ>>
    /\ UNCHANGED <<steps, lastStep>>
    /\ UNCHANGED <<guiderVars, callerVars, driverVars,
                   clusterVars, hookVars, copyVars, mutVars, pubsubVars>>

\* step 3: ask the strategy for the choice of step t, apply it and record
\* it, with the draws the strategy made: the node chosen is ticked (the
\* library is the deterministic one of DetTick) and the events of the tick
\* are added to the event trace
RunStep ==
    /\ runPc = "step"
    /\ MoreSteps(runT)
    /\ \E recorded \in StepChoices(parent, Len(runTrace),
                                   RandomDraws(runTrace, fresh)) :
          LET n == recorded[Len(recorded)].NodeID
              newStates == [curStates EXCEPT ![n] = DetTick(@)]
          IN  /\ runTrace' = runTrace \o recorded
              /\ fresh' = fresh \o [i \in 1..Len(recorded) |->
                                        Len(runTrace) + i > Len(parent)]
              /\ curStates' = newStates
              /\ events' = events \o StepEvents(curStates, newStates,
                                                 [m \in Nodes |-> 0], TRUE)
    /\ runT' = runT + 1
    /\ UNCHANGED <<runPc, parent, runQueue, runMutations, runJ>>
    /\ UNCHANGED <<steps, lastStep>>
    /\ UNCHANGED <<guiderVars, callerVars, driverVars,
                   clusterVars, hookVars, copyVars, mutVars, pubsubVars>>

\* step 4: the guider scores the trace:
\* if numNewStates, _ := f.config.Guider.Check(trace, eventTrace);
\*    numNewStates > 0 { numMutations := numNewStates * MutPerTrace; j := 0
\* Check records the hash, sends the events of the run (SendTrace appends
\* the Reset event to the list) and counts the states it had not seen; a
\* panic in Check unwinds Run.
RunScore ==
    /\ runPc = "step"
    /\ ~MoreSteps(runT)
    /\ \E o \in ServerOutcomes :
          LET out == CheckOutcome(statesMap, o[2], o[1])
          IN  /\ Check(events, o[1], o[2])
              /\ IF out.panic
                 THEN /\ runPc' = "panic"
                      /\ UNCHANGED runMutations
                 ELSE /\ runPc' = "mutate"
                      /\ runMutations' = LoopBound(out.numNewStates)
    /\ events' = AppendReset(events)
    /\ runJ' = 0
    /\ UNCHANGED <<runT, parent, runTrace, fresh, runQueue>>
    /\ UNCHANGED <<curStates, steps, lastStep>>
    /\ UNCHANGED <<callerVars, driverVars,
                   clusterVars, hookVars, copyVars, mutVars, pubsubVars>>

\* step 5: one turn of the mutation loop
RunMutate ==
    /\ runPc = "mutate"
    /\ runJ < runMutations
    /\ \E m \in Mutations(runTrace) :
          runQueue' = PushIfOk(runQueue, m.new, m.ok)
    /\ runJ' = runJ + 1
    /\ UNCHANGED <<runPc, runT, parent, runTrace, fresh, runMutations>>
    /\ UNCHANGED <<guiderVars, callerVars, driverVars, harnessVars,
                   clusterVars, hookVars, copyVars, mutVars, pubsubVars>>

\* j < numMutations is false (or the if was not entered): the body of the
\* iteration is over
RunEnd ==
    /\ runPc = "mutate"
    /\ runJ >= runMutations
    /\ runPc' = "done"
    /\ UNCHANGED <<runT, parent, runTrace, fresh, runQueue, runMutations, runJ>>
    /\ UNCHANGED <<guiderVars, callerVars, driverVars, harnessVars,
                   clusterVars, hookVars, copyVars, mutVars, pubsubVars>>

\* i++: the lists and counters of the iteration go out of scope; the queue
\* and the guider stay
RunNext ==
    /\ runPc = "done"
    /\ iter' = iter + 1
    /\ runPc' = "start"
    /\ runT' = 0
    /\ parent' = <<>>
    /\ runTrace' = <<>>
    /\ fresh' = <<>>
    /\ runMutations' = 0
    /\ runJ' = 0
    /\ UNCHANGED runQueue
    /\ UNCHANGED <<pc, mutatedTracesQueue, trace, eventTrace, numNewStates,
                   numMutations, j, okCount, queueAtCheck, statesAtCheck,
                   checkFailed>>
    /\ UNCHANGED <<guiderVars, callerVars, harnessVars, clusterVars,
                   hookVars, copyVars, mutVars, pubsubVars>>

(***************************************************************************)
(* One call of the mutator on a trace of any length up to MaxMutLen.       *)
(***************************************************************************)
NoResult == [op |-> "none", new |-> <<>>, ok |-> FALSE]

MutInit ==
    /\ mutTrace \in SeqsUpTo(RunChoices, MaxMutLen)
    /\ mutResult = NoResult

MutIdle ==
    /\ mutTrace = <<>>
    /\ mutResult = NoResult

\* mutate(trace, event_trace): one operator is sampled and applied
MutateCall ==
    /\ mutResult = NoResult
    /\ \E op \in MutOps : \E r \in MutateWith(op, mutTrace) :
          mutResult' = [op |-> op, new |-> r.new, ok |-> r.ok]
    /\ UNCHANGED mutTrace
    /\ UNCHANGED <<guiderVars, callerVars, driverVars, harnessVars,
                   clusterVars, runVars, hookVars, copyVars, pubsubVars>>

(***************************************************************************)
(* The driver and the invariant hook of the harness: after every step the  *)
(* driver asks the harness whether an invariant is lost; a lost invariant  *)
(* is fatal for the iteration and stops the campaign.                      *)
(***************************************************************************)
\* two nodes are leader in the same term
TwoLeaders(states) ==
    \E n, m \in Nodes :
        /\ n # m
        /\ states[n].RaftState = StateLeader
        /\ states[m].RaftState = StateLeader
        /\ states[n].Term = states[m].Term

\* faulty variant: the hook is asked at the end of the iteration only
HookMutAtEnd(states, t) == t = HookHorizon /\ TwoLeaders(states)

\* the invariant hook as the driver evaluates it after step number t
Hook(states, t) == TwoLeaders(states)

HookInit ==
    /\ hookPc = "step"
    /\ hookIter = 0
    /\ hookT = 0

HookIdle ==
    /\ hookPc = "done"
    /\ hookIter = 0
    /\ hookT = 0

\* one step of an iteration: the choice is applied to a node, whose status
\* the library moves; the hook is evaluated on the statuses after the step
HookStep ==
    /\ hookPc = "step"
    /\ hookT < HookHorizon
    /\ \E n \in Nodes : \E o \in LibOutcomes(curStates[n]) :
          LET newStates == [curStates EXCEPT ![n] = o.status]
          IN  /\ curStates' = newStates
              /\ hookPc' = IF Hook(newStates, hookT + 1) THEN "fatal"
                           ELSE "step"
    /\ hookT' = hookT + 1
    /\ UNCHANGED <<hookIter, events, steps, lastStep>>
    /\ UNCHANGED <<guiderVars, callerVars, driverVars, clusterVars, runVars,
                   copyVars, mutVars, pubsubVars>>

\* the horizon is reached: the next iteration starts on a cluster reset, or
\* the campaign is over
HookNextIteration ==
    /\ hookPc = "step"
    /\ hookT = HookHorizon
    /\ hookIter' = hookIter + 1
    /\ hookT' = 0
    /\ curStates' = [n \in Nodes |-> Status(StateFollower, 0)]
    /\ hookPc' = IF hookIter + 1 < Iterations THEN "step" ELSE "done"
    /\ UNCHANGED <<events, steps, lastStep>>
    /\ UNCHANGED <<guiderVars, callerVars, driverVars, clusterVars, runVars,
                   copyVars, mutVars, pubsubVars>>

(***************************************************************************)
(* The mutation loop on list objects: Mutate hands back a list, which may  *)
(* be the very list it was given or a new one; the queue gets              *)
(* copyTrace(new, defaultCopyFilter()), a new list.  A list can be changed *)
(* in place by whoever holds it.                                           *)
(***************************************************************************)
\* a new list with the given content: the heap with it, and its reference
Alloc(h, content) == [heap |-> Append(h, content), ref |-> Len(h) + 1]

\* faulty variant: the list Mutate returned is queued itself
PushRefIfOkMutNoCopy(h, q, newRef, ok) ==
    IF ok THEN [heap |-> h, queue |-> Append(q, newRef)]
    ELSE [heap |-> h, queue |-> q]

\* if ok { f.mutatedTracesQueue.Push(copyTrace(new, defaultCopyFilter())) }
PushRefIfOk(h, q, newRef, ok) ==
    IF ok
    THEN LET a == Alloc(h, CopyTrace(h[newRef]))
         IN  [heap |-> a.heap, queue |-> Append(q, a.ref)]
    ELSE [heap |-> h, queue |-> q]

NoMut == [ref |-> 0, child |-> 0, before |-> <<>>]

CopyInit ==
    /\ heap \in {<<t>> : t \in RandomTraces}
    /\ traceRef = 1
    /\ queueRefs = <<>>
    /\ lastMut = NoMut

CopyIdle ==
    /\ heap = <<>>
    /\ traceRef = 0
    /\ queueRefs = <<>>
    /\ lastMut = NoMut

\* one turn of the mutation loop: Mutate(trace, eventTrace) returns ok and
\* the list it was given (sameList) or a new list holding a mutant; a list
\* made by a call that is not ok is dropped
MutateAndPush ==
    /\ Len(queueRefs) < MutPerTrace
    /\ \E sameList \in BOOLEAN : \E ok \in BOOLEAN :
       \E m \in MutatorResults(heap[traceRef]) :
          LET a == IF sameList \/ ~ok THEN [heap |-> heap, ref |-> traceRef]
                   ELSE Alloc(heap, m)
              r == PushRefIfOk(a.heap, queueRefs, a.ref, ok)
          IN  /\ heap' = r.heap
              /\ queueRefs' = r.queue
    /\ UNCHANGED <<traceRef, lastMut>>
    /\ UNCHANGED <<guiderVars, callerVars, driverVars, harnessVars,
                   clusterVars, runVars, hookVars,
                   mutVars, pubsubVars>>

\* a later mutation of the child at position k of the queue, made in place
MutateChildInPlace ==
    /\ lastMut = NoMut
    /\ \E k \in 1..Len(queueRefs) :
       \E content \in RandomTraces \ {heap[queueRefs[k]]} :
          /\ heap' = [heap EXCEPT ![queueRefs[k]] = content]
          /\ lastMut' = [ref |-> queueRefs[k], child |-> k, before |-> heap]
    /\ UNCHANGED <<traceRef, queueRefs>>
    /\ UNCHANGED <<guiderVars, callerVars, driverVars, harnessVars,
                   clusterVars, runVars, hookVars,
                   mutVars, pubsubVars>>

(***************************************************************************)
(* The pub/sub utility (pubsub/client.go).  The service is outside the     *)
(* program: it holds the published messages, hands each to the callback of *)
(* Receive as a new message object, forgets a message that was acked and   *)
(* holds a nacked one for another delivery.  The goroutines of the program *)
(* take their steps one at a time: a step is what a goroutine does between *)
(* two points where it releases a mutex, starts a goroutine or blocks.     *)
(***************************************************************************)
\* the goroutines calling ReceiveMessage
Receivers == {1, 2}

MsgIds == 1..MaxMsgs

AckModeNack == "AckModeNack"

AckModeAck == "AckModeAck"

AckModes == {AckModeNack, AckModeAck}

\* the nil *pubsub.Message
NilMsg == [id |-> 0, del |-> 0]

\* the message object of delivery k of message m (k = 0: made by the test)
Obj(m, k) == [id |-> m, del |-> k]

NoRet == [msg |-> NilMsg, err |-> "none", src |-> "none", found |-> <<>>,
          afterClose |-> FALSE, startedCancelled |-> FALSE]

NoPublish == [timeout |-> 0, getErr |-> "none", ctxErr |-> "none",
              id |-> 0, err |-> "none"]

\* no PublishMessage call is under way
NotPublishing == [active |-> FALSE, timeout |-> 0, m |-> 0, reached |-> FALSE]

PubSubInit ==
    /\ messageBuffer = <<>>
    /\ messageChan = <<>>
    /\ errorChan = <<>>
    /\ ackMode \in AckModes
    /\ cancelled = FALSE
    /\ onceDone = FALSE
    /\ onceBusy = 0
    /\ receiverStarted = FALSE
    /\ rcvPc = "none"
    /\ rpc = [g \in Receivers |-> "idle"]
    /\ calls = 0
    /\ returns = <<>>
    /\ lastRet = [g \in Receivers |-> NoRet]
    /\ starts = 0
    /\ origin = <<>>
    /\ pending = {}
    /\ deliveries = [m \in MsgIds |-> 0]
    /\ inCallback = {}
    /\ acked = {}
    /\ nacked = {}
    /\ lastPublish = NoPublish
    /\ publishing = NotPublishing
    /\ closePc = "none"
    /\ polls = 0
    /\ sleeps = 0

PubSubIdle == PubSubInit /\ ackMode = AckModeNack /\ chanCap = ChanCap

(***************************************************************************)
(* BufferMessage(msg): append under bufferMutex.  msg is a message object  *)
(* the caller made, or nil.                                                *)
(***************************************************************************)
BufferMessage(msg) ==
    /\ Len(origin) < MaxMsgs
    /\ messageBuffer' = Append(messageBuffer, msg)
    /\ origin' = Append(origin, IF msg = NilMsg THEN "nil" ELSE "buffer")
    /\ UNCHANGED <<messageChan, errorChan, ackMode, chanCap, cancelled, onceDone,
                   onceBusy, receiverStarted, rcvPc, rpc, calls, returns,
                   lastRet, starts, pending, deliveries, inCallback, acked,
                   nacked, lastPublish, publishing>>

BufferAny ==
    /\ \E msg \in {NilMsg, Obj(Len(origin) + 1, 0)} : BufferMessage(msg)
    /\ UNCHANGED <<fuzzVars, closeVars>>

(***************************************************************************)
(* ReceiveMessage, the check of the buffer under bufferMutex.  A call that *)
(* finds a message in the buffer returns it at once; a call that finds the *)
(* buffer empty unlocks and goes on to startContinuousReceiver.  found is  *)
(* the buffer as the call saw it.                                          *)
(***************************************************************************)
BufferHasMessage(buf) == Len(buf) > 0

BufferRestMutKeep(buf) == buf
BufferRest(buf) == Tail(buf)

ReceiveStart(g) ==
    /\ rpc[g] = "idle"
    /\ IF BufferHasMessage(messageBuffer)
       THEN /\ messageBuffer' = BufferRest(messageBuffer)
            /\ returns' = Append(returns, [g |-> g, msg |-> messageBuffer[1],
                                           src |-> "buffer"])
            /\ lastRet' = [lastRet EXCEPT ![g] =
                               [msg |-> messageBuffer[1], err |-> "nil",
                                src |-> "buffer", found |-> messageBuffer,
                                afterClose |-> cancelled,
                                startedCancelled |-> FALSE]]
            /\ UNCHANGED rpc
       ELSE /\ rpc' = [rpc EXCEPT ![g] = "start"]
            /\ lastRet' = [lastRet EXCEPT ![g] =
                               [msg |-> NilMsg, err |-> "none",
                                src |-> "none", found |-> messageBuffer,
                                afterClose |-> cancelled,
                                startedCancelled |-> FALSE]]
            /\ UNCHANGED <<messageBuffer, returns>>
    /\ UNCHANGED <<messageChan, errorChan, ackMode, chanCap, cancelled, onceDone,
                   onceBusy, receiverStarted, rcvPc, starts, serviceVars>>

ReceiveCall ==
    /\ calls < MaxCalls
    /\ calls' = calls + 1
    /\ \E g \in Receivers : ReceiveStart(g)
    /\ UNCHANGED <<fuzzVars, closeVars>>

(***************************************************************************)
(* startContinuousReceiver: c.receiverOnce.Do(f).  A goroutine that finds  *)
(* the Once done goes on; the first one runs f, and a goroutine that       *)
(* arrives while f runs waits for it.  f sets receiverStarted under        *)
(* receiverMutex, unlocks, and then launches the receiver goroutine.       *)
(***************************************************************************)
\* faulty variant: the function of the Once runs at every call
OnceFiresMutAlways(done) == TRUE

\* c.receiverOnce.Do(f) runs f unless the Once has run it before
OnceFires(done) == ~done

\* the head of f: c.receiverStarted = true
StartContinuousReceiver(g) ==
    /\ rpc[g] = "start"
    /\ onceBusy = 0
    /\ IF OnceFires(onceDone)
       THEN /\ receiverStarted' = TRUE
            /\ onceBusy' = g
            /\ rpc' = [rpc EXCEPT ![g] = "launch"]
       ELSE /\ rpc' = [rpc EXCEPT ![g] = "ctx"]
            /\ UNCHANGED <<receiverStarted, onceBusy>>
    /\ UNCHANGED <<messageBuffer, messageChan, errorChan, ackMode, chanCap, cancelled,
                   onceDone, rcvPc, calls, returns, lastRet, starts,
                   serviceVars>>

StartContinuousReceiverAny ==
    /\ \E g \in Receivers : StartContinuousReceiver(g)
    /\ UNCHANGED <<fuzzVars, closeVars>>

\* the rest of f: go func() { ... }(), after which Do marks the Once done
LaunchReceiver(g) ==
    /\ rpc[g] = "launch"
    /\ rcvPc' = "running"
    /\ starts' = starts + 1
    /\ onceDone' = TRUE
    /\ onceBusy' = 0
    /\ rpc' = [rpc EXCEPT ![g] = "ctx"]
    /\ UNCHANGED <<messageBuffer, messageChan, errorChan, ackMode, chanCap, cancelled,
                   receiverStarted, calls, returns, lastRet, serviceVars>>

LaunchReceiverAny ==
    /\ \E g \in Receivers : LaunchReceiver(g)
    /\ UNCHANGED <<fuzzVars, closeVars>>

(***************************************************************************)
(* ReceiveMessage, ctx := context.WithTimeout(c.ctx, timeout): the context *)
(* made from a cancelled c.ctx is cancelled from the start.  The call then *)
(* blocks in its select.                                                   *)
(***************************************************************************)
ReceiveContext(g) ==
    /\ rpc[g] = "ctx"
    /\ rpc' = [rpc EXCEPT ![g] = "wait"]
    /\ lastRet' = [lastRet EXCEPT ![g].startedCancelled = cancelled]
    /\ UNCHANGED <<messageBuffer, messageChan, errorChan, ackMode, chanCap, cancelled,
                   onceDone, onceBusy, receiverStarted, rcvPc, calls, returns,
                   starts, serviceVars>>

ReceiveContextAny ==
    /\ \E g \in Receivers : ReceiveContext(g)
    /\ UNCHANGED <<fuzzVars, closeVars>>

(***************************************************************************)
(* ReceiveMessage, the select.  A message taken from messageChan is        *)
(* settled by the ack mode and returned; an error taken from errorChan is  *)
(* returned as a receiver error; when the context of the call is done the  *)
(* call returns the error of the context.  select takes any of the cases   *)
(* that are ready.                                                         *)
(***************************************************************************)
SettleForMutNack(mode) == "nack"
SettleForMutNone(mode) == "none"
SettleFor(mode) == IF mode = AckModeAck THEN "ack" ELSE "nack"

RecvTake(g) ==
    /\ rpc[g] = "wait"
    /\ Len(messageChan) > 0
    /\ LET msg == Head(messageChan)
           how == SettleFor(ackMode)
       IN  /\ messageChan' = Tail(messageChan)
           /\ rpc' = [rpc EXCEPT ![g] = "idle"]
           /\ IF msg # NilMsg
              THEN /\ acked' = IF how = "ack" THEN acked \cup {msg} ELSE acked
                   /\ nacked' = IF how = "nack" THEN nacked \cup {msg}
                                ELSE nacked
                   /\ pending' = IF how = "nack" THEN pending \cup {msg.id}
                                 ELSE pending
                   /\ returns' = Append(returns, [g |-> g, msg |-> msg,
                                                  src |-> "chan"])
                   /\ lastRet' = [lastRet EXCEPT ![g].msg = msg,
                                                 ![g].err = "nil",
                                                 ![g].src = "chan"]
              ELSE /\ lastRet' = [lastRet EXCEPT
                                      ![g].msg = NilMsg,
                                      ![g].err = "received nil message",
                                      ![g].src = "chan"]
                   /\ UNCHANGED <<acked, nacked, pending, returns>>
    /\ UNCHANGED <<messageBuffer, errorChan, ackMode, chanCap, cancelled, onceDone,
                   onceBusy, receiverStarted, rcvPc, calls, starts, origin,
                   deliveries, inCallback, lastPublish, publishing>>

RecvTakeAny ==
    /\ \E g \in Receivers : RecvTake(g)
    /\ UNCHANGED <<fuzzVars, closeVars>>

RecvErr(g) ==
    /\ rpc[g] = "wait"
    /\ Len(errorChan) > 0
    /\ errorChan' = Tail(errorChan)
    /\ rpc' = [rpc EXCEPT ![g] = "idle"]
    /\ lastRet' = [lastRet EXCEPT ![g].msg = NilMsg,
                                  ![g].err = "receiver error",
                                  ![g].src = "errorChan"]
    /\ UNCHANGED <<messageBuffer, messageChan, ackMode, chanCap, cancelled, onceDone,
                   onceBusy, receiverStarted, rcvPc, calls, returns, starts,
                   serviceVars>>

RecvErrAny ==
    /\ \E g \in Receivers : RecvErr(g)
    /\ UNCHANGED <<fuzzVars, closeVars>>

\* what ctx.Err() can be once the context of a call is done: the context
\* made from a cancelled c.ctx is cancelled from the start
DoneCauses(isCancelled, startedCancelled) ==
    IF startedCancelled THEN {"Canceled"}
    ELSE {"DeadlineExceeded"} \cup (IF isCancelled THEN {"Canceled"} ELSE {})

WaitErrorMutNil(ctxErr) ==
    IF ctxErr = "DeadlineExceeded" THEN "nil" ELSE ctxErr
WaitError(ctxErr) ==
    IF ctxErr = "DeadlineExceeded" THEN "timeout waiting for message"
    ELSE ctxErr

RecvDone(g) ==
    /\ rpc[g] = "wait"
    /\ \E ctxErr \in DoneCauses(cancelled, lastRet[g].startedCancelled) :
           lastRet' = [lastRet EXCEPT ![g].msg = NilMsg,
                                      ![g].err = WaitError(ctxErr),
                                      ![g].src = "ctx"]
    /\ rpc' = [rpc EXCEPT ![g] = "idle"]
    /\ UNCHANGED <<messageBuffer, messageChan, errorChan, ackMode, chanCap, cancelled,
                   onceDone, onceBusy, receiverStarted, rcvPc, calls, returns,
                   starts, serviceVars>>

RecvDoneAny ==
    /\ \E g \in Receivers : RecvDone(g)
    /\ UNCHANGED <<fuzzVars, closeVars>>

(***************************************************************************)
(* The callback of subscription.Receive(c.ctx, func(ctx, msg)), run by the *)
(* receiver goroutine for a message the service delivers.  ctx, the        *)
(* context of the callback, is made by Receive from c.ctx: it is done when *)
(* c.ctx is cancelled and when Receive is on its way out with an error.    *)
(* The first select returns when c.ctx or ctx is done; the second select   *)
(* sends the message to messageChan when there is room, returns when c.ctx *)
(* or ctx is done, and otherwise nacks the message.                        *)
(***************************************************************************)
CallbackCtxDone(receiver, isCancelled) == isCancelled \/ receiver = "ending"

\* faulty variant: the first select returns whatever the contexts are
FirstSelectReturnsMutAlways(isCancelled, ctxDone) == TRUE

\* the first select returns: <-c.ctx.Done() or <-ctx.Done() is ready
FirstSelectReturns(isCancelled, ctxDone) == isCancelled \/ ctxDone

\* the deliveries of the messages 1..n the service has made
RECURSIVE Delivered(_, _)
Delivered(count, n) ==
    IF n = 0 THEN 0 ELSE count[n] + Delivered(count, n - 1)

CallbackStart(m) ==
    /\ rcvPc \in {"running", "ending"}
    /\ m \in pending
    /\ Delivered(deliveries, MaxMsgs) < MaxDeliveries
    /\ pending' = pending \ {m}
    /\ deliveries' = [deliveries EXCEPT ![m] = @ + 1]
    /\ inCallback' =
          IF FirstSelectReturns(cancelled, CallbackCtxDone(rcvPc, cancelled))
          THEN inCallback
          ELSE inCallback \cup {Obj(m, deliveries[m] + 1)}
    /\ UNCHANGED <<clientVars, origin, acked, nacked, lastPublish,
                   publishing>>

CallbackStartAny ==
    /\ \E m \in MsgIds : CallbackStart(m)
    /\ UNCHANGED <<fuzzVars, closeVars>>

\* faulty variant: one message more than the channel holds
ChanHasRoomMutOneMore(ch) == Len(ch) <= chanCap

\* c.messageChan <- msg can proceed: the channel is not full
ChanHasRoom(ch) == Len(ch) < chanCap

\* the cases of the second select that can be taken: default (the Nack)
\* only when no other case is ready
SendChoices(ch, isCancelled, ctxDone) ==
    IF ChanHasRoom(ch) \/ isCancelled \/ ctxDone
    THEN (IF ChanHasRoom(ch) THEN {"send"} ELSE {})
         \cup (IF isCancelled \/ ctxDone THEN {"return"} ELSE {})
    ELSE {"nack"}

CallbackSend(o) ==
    /\ o \in inCallback
    /\ inCallback' = inCallback \ {o}
    /\ \E choice \in SendChoices(messageChan, cancelled,
                                 CallbackCtxDone(rcvPc, cancelled)) :
          /\ messageChan' = IF choice = "send" THEN Append(messageChan, o)
                            ELSE messageChan
          /\ nacked' = IF choice = "nack" THEN nacked \cup {o} ELSE nacked
          /\ pending' = IF choice = "nack" THEN pending \cup {o.id}
                        ELSE pending
    /\ UNCHANGED <<messageBuffer, errorChan, ackMode, chanCap, cancelled, onceDone,
                   onceBusy, receiverStarted, rcvPc, rpc, calls, returns,
                   lastRet, starts, origin, deliveries, acked, lastPublish,
                   publishing>>

CallbackSendAny ==
    /\ \E o \in inCallback : CallbackSend(o)
    /\ UNCHANGED <<fuzzVars, closeVars>>

(***************************************************************************)
(* The receiver goroutine.  subscription.Receive meets an error that is    *)
(* not the cancellation of c.ctx: it cancels the context of the callbacks, *)
(* waits for the callbacks that run, and returns the error.  The goroutine *)
(* then sends the error to errorChan unless the channel is full or c.ctx   *)
(* is done; its deferred function, which needs receiverMutex, clears       *)
(* receiverStarted after that.                                             *)
(***************************************************************************)
ReceiveFails ==
    /\ rcvPc = "running"
    /\ rcvPc' = "ending"
    /\ UNCHANGED <<messageBuffer, messageChan, errorChan, ackMode, chanCap, cancelled,
                   onceDone, onceBusy, receiverStarted, rpc, calls, returns,
                   lastRet, starts, serviceVars>>
    /\ UNCHANGED <<fuzzVars, closeVars>>

\* the cases of the select that sends the error which can be taken
ErrChoices(ch, isCancelled) ==
    (IF Len(ch) < ErrCap THEN {"send"} ELSE {})
    \cup (IF isCancelled \/ Len(ch) >= ErrCap THEN {"skip"} ELSE {})

ReceiverError ==
    /\ rcvPc = "ending"
    /\ inCallback = {}
    /\ \E choice \in ErrChoices(errorChan, cancelled) :
          errorChan' = IF choice = "send"
                       THEN Append(errorChan, "receive failed") ELSE errorChan
    /\ rcvPc' = "deferred"
    /\ UNCHANGED <<messageBuffer, messageChan, ackMode, chanCap, cancelled, onceDone,
                   onceBusy, receiverStarted, rpc, calls, returns, lastRet,
                   starts, serviceVars>>
    /\ UNCHANGED <<fuzzVars, closeVars>>

\* subscription.Receive returns because c.ctx is cancelled, once the
\* callbacks it started are over: no error is sent
ReceiverStops ==
    /\ rcvPc = "running"
    /\ cancelled
    /\ inCallback = {}
    /\ rcvPc' = "deferred"
    /\ UNCHANGED <<messageBuffer, messageChan, errorChan, ackMode, chanCap, cancelled,
                   onceDone, onceBusy, receiverStarted, rpc, calls, returns,
                   lastRet, starts, serviceVars>>
    /\ UNCHANGED <<fuzzVars, closeVars>>

\* the deferred function of the goroutine: c.receiverStarted = false
ReceiverExit ==
    /\ rcvPc = "deferred"
    /\ receiverStarted' = FALSE
    /\ rcvPc' = "exited"
    /\ UNCHANGED <<messageBuffer, messageChan, errorChan, ackMode, chanCap, cancelled,
                   onceDone, onceBusy, rpc, calls, returns, lastRet, starts,
                   serviceVars>>
    /\ UNCHANGED <<fuzzVars, closeVars>>

(***************************************************************************)
(* Close(): c.cancel(), then c.topic.Stop() (two statements, no lock is    *)
(* held across them, so other goroutines run in between); then the loop    *)
(*     for i := 0; i < 100; i++ { read receiverStarted under the mutex;    *)
(*                                if !started { break }; sleep 10 ms }     *)
(* and c.client.Close(), after which Close returns (with the error of      *)
(* client.Close, if any).  sleeps is the loop variable i.                  *)
(***************************************************************************)
CloseCancel ==
    /\ closePc = "none"
    /\ cancelled' = TRUE
    /\ closePc' = "stop"
    /\ UNCHANGED <<messageBuffer, messageChan, errorChan, ackMode, chanCap, onceDone,
                   onceBusy, receiverStarted, rcvPc, rpc, calls, returns,
                   lastRet, starts, serviceVars, polls, sleeps>>
    /\ UNCHANGED fuzzVars

\* c.topic.Stop(): the topic accepts no message any more; what it was handed
\* before has reached the service or failed (the step of PublishMessage that
\* hands a message over says which)
CloseStop ==
    /\ closePc = "stop"
    /\ closePc' = "poll"
    /\ UNCHANGED <<clientVars, serviceVars, polls, sleeps>>
    /\ UNCHANGED fuzzVars

\* the topic is stopped: c.topic.Stop() has returned
TopicStopped == closePc \in {"poll", "closed"}

\* faulty variant: one turn more
PollAgainMutOneMore(i) == i <= MaxPolls

\* i < 100
PollAgain(i) == i < MaxPolls

ClosePoll ==
    /\ closePc = "poll"
    /\ IF PollAgain(sleeps)
       THEN /\ polls' = polls + 1
            /\ IF ~receiverStarted
               THEN closePc' = "closed" /\ UNCHANGED sleeps
               ELSE sleeps' = sleeps + 1 /\ UNCHANGED closePc
       ELSE /\ closePc' = "closed"
            /\ UNCHANGED <<polls, sleeps>>
    /\ UNCHANGED <<clientVars, serviceVars>>
    /\ UNCHANGED fuzzVars

(***************************************************************************)
(* PublishMessage(data, attributes, timeout).  The context of the call is  *)
(* c.ctx, with a deadline only when timeout > 0.  c.topic.Publish hands    *)
(* the message to the client library, which sends it to the service unless *)
(* the topic is stopped or the publish fails (reached); Publish does not   *)
(* look at the context, so a message handed over after c.cancel() and      *)
(* before c.topic.Stop() can still reach the service; the call then        *)
(* blocks in result.Get(ctx), and the service may deliver the message      *)
(* before Get returns.  getErr is the error of Get, ctxErr is ctx.Err()    *)
(* when the error is inspected.  The id the service gives message m is m,  *)
(* the empty id is 0.                                                      *)
(***************************************************************************)
Timeouts == {-1, 0, 1}

HasDeadlineMutNonZero(timeout) == timeout # 0
HasDeadline(timeout) == timeout > 0

\* msg := ...; ctx := ...; result := c.topic.Publish(ctx, msg)
PublishMessage(timeout, reached) ==
    /\ ~publishing.active
    /\ Len(origin) < MaxMsgs
    /\ reached => ~TopicStopped
    /\ LET m == Len(origin) + 1
       IN  /\ origin' = Append(origin, IF reached THEN "published" ELSE "lost")
           /\ pending' = IF reached THEN pending \cup {m} ELSE pending
           /\ publishing' = [active |-> TRUE, timeout |-> timeout, m |-> m,
                             reached |-> reached]
    /\ UNCHANGED <<clientVars, deliveries, inCallback, acked, nacked,
                   lastPublish>>

PublishAny ==
    /\ \E timeout \in Timeouts : \E reached \in BOOLEAN :
          PublishMessage(timeout, reached)
    /\ UNCHANGED <<fuzzVars, closeVars>>

\* the errors the context of a publish call can have
PublishCtxErrs(timeout, isCancelled) ==
    {"nil"} \cup (IF HasDeadline(timeout) THEN {"DeadlineExceeded"} ELSE {})
            \cup (IF isCancelled THEN {"Canceled"} ELSE {})

\* the pairs <<getErr, ctxErr>>: Get succeeds (the message reached the
\* service), the publish fails, or Get returns the error of the context
\* that is done
PublishOutcomes(timeout, isCancelled, reached) ==
    (IF reached THEN {<<"nil", "nil">>}
     ELSE {<<"service", c>> : c \in PublishCtxErrs(timeout, isCancelled)})
    \cup {<<c, c>> : c \in PublishCtxErrs(timeout, isCancelled) \ {"nil"}}

PublishResult(getErr, ctxErr, serverId) ==
    IF getErr # "nil"
    THEN IF ctxErr = "DeadlineExceeded"
         THEN [id |-> 0, err |-> "timeout publishing message"]
         ELSE [id |-> 0, err |-> "failed to publish message"]
    ELSE [id |-> serverId, err |-> "nil"]

\* id, err := result.Get(ctx) and the return of PublishMessage
PublishGet(getErr, ctxErr) ==
    /\ publishing.active
    /\ LET res == PublishResult(getErr, ctxErr, publishing.m)
       IN  lastPublish' = [timeout |-> publishing.timeout, getErr |-> getErr,
                           ctxErr |-> ctxErr, id |-> res.id, err |-> res.err]
    /\ publishing' = NotPublishing
    /\ UNCHANGED <<clientVars, origin, pending, deliveries, inCallback, acked,
                   nacked>>

PublishGetAny ==
    /\ \E oc \in PublishOutcomes(publishing.timeout, cancelled,
                                 publishing.reached) :
          PublishGet(oc[1], oc[2])
    /\ UNCHANGED <<fuzzVars, closeVars>>

\* a publish without timeout that reaches the service
PublishPlain ==
    /\ PublishMessage(0, TRUE)
    /\ UNCHANGED <<fuzzVars, closeVars>>

(***************************************************************************)
(* The concurrent scenario of the integration test: one goroutine loops on *)
(* ReceiveMessage until it has received messageCount messages, another     *)
(* publishes messageCount messages, fewer than messageChan holds (5 of 100 *)
(* in the test), in AckModeAck.                                            *)
(***************************************************************************)
\* const messageCount: every message there is
MessageCount == MaxMsgs

\* the capacity of messageChan in this scenario, above messageCount
LiveChanCap == MessageCount + 1

\* the messages the loop has counted: received
Received == {returns[i].msg.id : i \in DOMAIN returns}

\* for atomic.LoadInt32(&received) < messageCount { ReceiveMessage(...)
ReceiveLoop ==
    /\ Cardinality(Received) < MessageCount
    /\ ReceiveStart(1)
    /\ UNCHANGED calls
    /\ UNCHANGED <<fuzzVars, closeVars>>

\* a call of ReceiveMessage by goroutine 1, counted
ReceiveOne ==
    /\ calls < MaxCalls
    /\ calls' = calls + 1
    /\ ReceiveStart(1)
    /\ UNCHANGED <<fuzzVars, closeVars>>

ReachedService == {m \in DOMAIN origin : origin[m] = "published"}

\* for i := 0; i < messageCount; i++ { client.PublishMessage(...)
PublishFew ==
    /\ Len(origin) < MessageCount
    /\ PublishAny

(***************************************************************************)
(* Specifications.                                                         *)
(***************************************************************************)
InitGuider == GuiderInit /\ CallerInit /\ DriverInit /\ HarnessIdle /\ ClusterIdle
                  /\ RunIdle /\ HookIdle /\ CopyIdle /\ MutIdle
                   /\ PubSubIdle

NextGuider == ApiNewList \/ ApiCheck

SpecGuider == InitGuider /\ [][NextGuider]_vars

Init == GuiderInit /\ CallerIdle /\ DriverInit /\ HarnessIdle /\ ClusterIdle
                  /\ RunIdle /\ HookIdle /\ CopyIdle /\ MutIdle
                   /\ PubSubIdle

Next ==
    StartIteration \/ DriverCheck \/ MutateStep \/ LoopExit \/ NextIteration

Spec == Init /\ [][Next]_vars

InitHarness == GuiderInit /\ CallerIdle /\ DriverInit /\ HarnessInit /\ ClusterIdle
                  /\ RunIdle /\ HookIdle /\ CopyIdle /\ MutIdle
                   /\ PubSubIdle

NextHarness == HarnessStep

SpecHarness == InitHarness /\ [][NextHarness]_vars

InitCluster == GuiderInit /\ CallerIdle /\ DriverInit /\ HarnessInit /\ ClusterInit
                   /\ RunIdle /\ HookIdle /\ CopyIdle /\ MutIdle
                   /\ PubSubIdle

NextCluster == TickOp \/ DeliverOp \/ CrashOp \/ RestartOp \/ ClientRequestOp

SpecCluster == InitCluster /\ [][NextCluster]_vars

\* the same operations in a run long enough to crash a node that has a
\* message waiting, or that is leader, and to use it after that
NextDown == steps < MaxDownSteps /\ ClusterOp

SpecDown == InitCluster /\ [][NextDown]_vars

NextRestart == ElectionTick \/ CrashAny \/ RestartAny

SpecRestart == InitCluster /\ [][NextRestart]_vars

InitRun == GuiderInit /\ CallerIdle /\ DriverInit /\ HarnessIdle /\ ClusterIdle
               /\ RunInit /\ HookIdle /\ CopyIdle /\ MutIdle
               /\ PubSubIdle

NextRun == StartRun \/ RunStep \/ RunScore \/ RunMutate \/ RunEnd \/ RunNext

SpecRun == InitRun /\ [][NextRun]_vars

InitHook == GuiderInit /\ CallerIdle /\ DriverInit /\ HarnessInit /\ ClusterIdle
                /\ RunIdle /\ HookInit /\ CopyIdle /\ MutIdle
                   /\ PubSubIdle

NextHook == HookStep \/ HookNextIteration

SpecHook == InitHook /\ [][NextHook]_vars

InitCopy == GuiderInit /\ CallerIdle /\ DriverInit /\ HarnessIdle /\ ClusterIdle
                /\ RunIdle /\ HookIdle /\ CopyInit /\ MutIdle
                   /\ PubSubIdle

NextCopy == MutateAndPush \/ MutateChildInPlace

SpecCopy == InitCopy /\ [][NextCopy]_vars

InitMutator == GuiderInit /\ CallerIdle /\ DriverInit /\ HarnessIdle /\ ClusterIdle
                   /\ RunIdle /\ HookIdle /\ CopyIdle /\ MutInit
                   /\ PubSubIdle

NextMutator == MutateCall

SpecMutator == InitMutator /\ [][NextMutator]_vars

InitPubSub == GuiderInit /\ CallerIdle /\ DriverInit /\ HarnessIdle /\ ClusterIdle
                   /\ RunIdle /\ HookIdle /\ CopyIdle /\ MutIdle
                   /\ PubSubInit /\ chanCap = ChanCap

\* goroutines calling BufferMessage and ReceiveMessage while messages are
\* published and delivered
NextPubSub ==
    \/ BufferAny \/ ReceiveCall \/ StartContinuousReceiverAny
    \/ LaunchReceiverAny \/ ReceiveContextAny
    \/ RecvTakeAny \/ RecvErrAny \/ RecvDoneAny
    \/ CallbackStartAny \/ CallbackSendAny
    \/ ReceiveFails \/ ReceiverError \/ ReceiverExit
    \/ PublishPlain \/ PublishGetAny

SpecPubSub == InitPubSub /\ [][NextPubSub]_vars

\* the life of the receiver goroutine: goroutines calling ReceiveMessage,
\* the receiver failing or stopping, and Close
NextClose ==
    \/ ReceiveCall \/ StartContinuousReceiverAny \/ LaunchReceiverAny
    \/ ReceiveContextAny \/ RecvErrAny \/ RecvDoneAny
    \/ ReceiveFails \/ ReceiverError \/ ReceiverStops \/ ReceiverExit
    \/ CloseCancel \/ CloseStop \/ ClosePoll

SpecClose == InitPubSub /\ [][NextClose]_vars

\* the goroutine that called Close keeps running
SpecCloseLive == SpecClose /\ WF_vars(CloseStop) /\ WF_vars(ClosePoll)

\* messages on their way while the client is closed: one goroutine calls
\* ReceiveMessage, messages are published and delivered, the receiver
\* fails or stops, and Close cancels c.ctx, waits for the receiver and
\* returns
NextShutdown ==
    \/ ReceiveOne \/ StartContinuousReceiverAny \/ LaunchReceiverAny
    \/ ReceiveContextAny \/ RecvTakeAny \/ RecvErrAny \/ RecvDoneAny
    \/ CallbackStartAny \/ CallbackSendAny
    \/ ReceiveFails \/ ReceiverError \/ ReceiverStops \/ ReceiverExit
    \/ PublishPlain \/ PublishGetAny
    \/ CloseCancel \/ CloseStop \/ ClosePoll

SpecShutdown == InitPubSub /\ [][NextShutdown]_vars

\* calls of PublishMessage, one after the other, before and after Close
NextPublish ==
    \/ PublishAny \/ PublishGetAny
    \/ CloseCancel \/ CloseStop \/ ClosePoll

SpecPublish == InitPubSub /\ [][NextPublish]_vars

\* the client of the test: AckModeAck, and a channel that holds more than
\* the messages of the test
InitPubSubLive == GuiderInit /\ CallerIdle /\ DriverInit /\ HarnessIdle /\ ClusterIdle
                   /\ RunIdle /\ HookIdle /\ CopyIdle /\ MutIdle
                   /\ PubSubInit /\ ackMode = AckModeAck /\ chanCap = LiveChanCap

NextPubSubLive ==
    \/ PublishFew \/ PublishGetAny \/ ReceiveLoop
    \/ StartContinuousReceiverAny \/ LaunchReceiverAny \/ ReceiveContextAny
    \/ RecvTakeAny \/ RecvDoneAny
    \/ CallbackStartAny \/ CallbackSendAny

\* The goroutine of the test runs its loop (each step of ReceiveMessage up
\* to the select is taken), the service delivers what it holds and the
\* receiver goroutine runs the callback: weak fairness.  A call whose
\* select finds a message in messageChan may still take the case of its
\* timeout, but select chooses among the ready cases at random, so a
\* message that stays in the channel is taken in the end: strong fairness
\* of the take.
SpecPubSubLive ==
    /\ InitPubSubLive /\ [][NextPubSubLive]_vars
    /\ WF_vars(ReceiveLoop)
    /\ WF_vars(StartContinuousReceiverAny)
    /\ WF_vars(LaunchReceiverAny)
    /\ WF_vars(ReceiveContextAny)
    /\ WF_vars(CallbackStartAny)
    /\ WF_vars(CallbackSendAny)
    /\ SF_vars(RecvTakeAny)

(***************************************************************************)
(* Claims about the guider (SpecGuider).                                   *)
(***************************************************************************)
ReplyKeys(tlcStates) == {tlcStates[i] : i \in 1..Len(tlcStates)}

\* C1: no key once inserted into the guider's states set is ever removed,
\* whatever the model server replies and also when the call fails: every step
\* leaves statesMap a superset of what it was, so |states| never decreases.
C1_StatesMonotone == [][statesMap \subseteq statesMap']_vars

\* a Check call was made while states held a key that the reply does not
\* contain, and a failed call was made with states not empty
C1_Witness ==
    /\ last.called
    /\ last.before # {}
    /\ \/ last.err
       \/ \E k \in last.before : k \notin ReplyKeys(last.tlcStates)

\* C2: a successful Check returns the number of distinct keys of the reply
\* that were not in states before the call (a key repeated in the reply
\* counts once), and leaves states = previous states united with the reply's
\* keys.
C2_NewStatesCount ==
    (last.called /\ ~last.err) =>
        /\ last.returned
        /\ last.numNewStates =
               Cardinality(ReplyKeys(last.tlcStates) \ last.before)
        /\ statesMap = last.before \cup ReplyKeys(last.tlcStates)

\* a successful call whose reply repeats a key that was new, while states
\* already held another key
C2_Witness ==
    /\ last.called /\ ~last.err
    /\ last.before # {}
    /\ Len(last.tlcStates) >= 2
    /\ last.tlcStates[1] = last.tlcStates[2]
    /\ last.tlcStates[1] \notin last.before

\* C3: submitting the same event trace to Check a second time returns
\* new_states = 0 on the second call.
C3_SecondSubmissionFindsNothing ==
    (last.called /\ last.again /\ last.returned) => last.numNewStates = 0

\* C4: when the hash of the event trace passed to Check is already in the
\* set of trace hashes, Check returns (0, 0) and sends no request to the
\* model server.
C4_SeenHashSkipsServer ==
    (last.called /\ last.hashSeen) =>
        /\ last.returned
        /\ last.numNewStates = 0
        /\ sendCalls = last.sendCallsBefore

\* C7: every request body posted to the model server holds exactly one
\* element with Reset = true, and that element is the last one, also for a
\* second SendTrace call on the same event-trace list.
C7_OneResetLast ==
    last.called =>
        /\ Len(last.body) >= 1
        /\ \A i \in 1..Len(last.body) :
              last.body[i].Reset <=> (i = Len(last.body))

(***************************************************************************)
(* Claims about the campaign loop (Spec).                                  *)
(***************************************************************************)
\* C5: when the model-server call fails the iteration is fatal: no key is
\* added to states, no mutant is pushed onto the mutated queue, the loop is
\* left by the panic (Check returns nothing, so the failure is not scored as
\* 0 new states) and the campaign takes no further step.
C5_FailureIsFatal ==
    checkFailed =>
        /\ panicked
        /\ pc = "panic"
        /\ statesMap = statesAtCheck
        /\ mutatedTracesQueue = queueAtCheck
        /\ ~ENABLED Next

\* the call failed in a later iteration, with keys in states and traces in
\* the mutated queue
C5_Witness ==
    /\ checkFailed
    /\ iter >= 1
    /\ statesAtCheck # {}
    /\ mutatedTracesQueue # <<>>

\* C6: in an iteration whose score is new > 0 the mutator is called exactly
\* new * M times and the mutated queue gains exactly one copied child per
\* call that returned ok (at most new * M children); when new = 0 the
\* mutator is not called and the queue gains nothing.
C6_MutationLoop ==
    pc \in {"mutate", "record"} =>
        /\ j <= numNewStates * MutPerTrace
        /\ pc = "record" => j = numNewStates * MutPerTrace
        /\ okCount <= j
        /\ Len(mutatedTracesQueue) = Len(queueAtCheck) + okCount
        /\ SubSeq(mutatedTracesQueue, 1, Len(queueAtCheck)) = queueAtCheck
        /\ \A k \in (Len(queueAtCheck) + 1)..Len(mutatedTracesQueue) :
              mutatedTracesQueue[k] \in
                  {CopyTrace(new) : new \in MutatorResults(trace)}
        /\ numNewStates = 0 => (j = 0 /\ mutatedTracesQueue = queueAtCheck)

\* the body of an iteration that found two new states is over: four Mutate
\* calls, some of which returned ok and some not, with traces already queued
C6_Witness ==
    /\ pc = "record"
    /\ numNewStates = 2
    /\ j = 2 * MutPerTrace
    /\ okCount > 0 /\ okCount < j

\* C22: every trace created in a campaign, generated by the random strategy
\* or pushed onto the mutated queue, has been executed once and scored once
\* when the campaign is over (the traces created are those generated plus
\* those pushed, the traces executed are those generated plus those popped:
\* no pushed trace is left in the queue), and mutants of a trace are
\* enqueued only if its score found a new state.
C22_EveryTraceRunOnce ==
    /\ (pc = "iter" /\ iter = Iterations) =>
           (mutatedTracesQueue = <<>> /\ sendCalls = iter)
    /\ (pc \in {"mutate", "record"} /\ numNewStates = 0) =>
           mutatedTracesQueue = queueAtCheck

\* C22 as amended: every trace an iteration takes, generated by the random
\* strategy when the queue is empty or popped from the queue (which it then
\* leaves), is executed once and passed to Check once in that iteration;
\* mutants of a trace are enqueued only if its score found a new state.
\* (Traces still queued when the campaign is over are never executed.)
C22_TakenTraceRunOnce ==
    [][/\ (pc = "iter" /\ pc' = "check") =>
              IF mutatedTracesQueue = <<>>
              THEN trace' \in RandomTraces /\ UNCHANGED mutatedTracesQueue
              ELSE /\ trace' = Head(mutatedTracesQueue)
                   /\ mutatedTracesQueue' = Tail(mutatedTracesQueue)
       /\ sendCalls' = iter' + (IF pc' \in {"mutate", "record", "panic"}
                                THEN 1 ELSE 0)
       /\ (pc' \in {"mutate", "record"} /\ numNewStates' = 0) =>
              mutatedTracesQueue' = queueAtCheck'
      ]_vars

\* the last iteration popped its trace from a queue that held more than one,
\* scored it and found nothing: the traces left stay in the queue
C22_Witness ==
    /\ pc = "record"
    /\ iter = Iterations - 1
    /\ numNewStates = 0
    /\ queueAtCheck # <<>>
    /\ mutatedTracesQueue = queueAtCheck

\* C29: the Reset marker exists in the request body only: the Check call
\* of an iteration leaves the event trace of the caller as it was, so the
\* event trace the mutator is given after the call has the length it had
\* before the call and holds no event with Reset = true.
C29_ResetOnlyOnWire ==
    [][(pc = "check" /\ pc' = "mutate") =>
           /\ eventTrace' = eventTrace
           /\ \A i \in 1..Len(eventTrace') : ~eventTrace'[i].Reset
      ]_vars

\* C31: a Mutate call that returns ok = false (j advances, okCount does not)
\* pushes nothing onto the mutated queue, leaves the trace and the states of
\* the guider as they were and leaves the campaign in its mutation loop, not
\* aborted; and an iteration that finds the mutated queue empty pops nothing
\* and runs a trace of the random strategy.
C31_FailedMutateIsSkipped ==
    [][/\ (pc = "mutate" /\ j' = j + 1 /\ okCount' = okCount) =>
              /\ mutatedTracesQueue' = mutatedTracesQueue
              /\ trace' = trace
              /\ statesMap' = statesMap
              /\ pc' = "mutate"
              /\ ~panicked'
       /\ (pc = "iter" /\ pc' = "check" /\ mutatedTracesQueue = <<>>) =>
              /\ trace' \in RandomTraces
              /\ mutatedTracesQueue' = <<>>
      ]_vars

\* every Mutate call of an iteration returned ok = false and the queue is
\* empty, with an iteration still to come
C31_Witness ==
    /\ pc = "mutate"
    /\ j > 0 /\ j = numMutations
    /\ okCount = 0
    /\ mutatedTracesQueue = <<>>
    /\ iter < Iterations - 1

(***************************************************************************)
(* Claims about the events of the harness (SpecHarness).                   *)
(***************************************************************************)
IsRoleChange(e) == e.Name \in {"BecomeLeader", "Timeout"}

IsCommit(e) == e.Name = "AdvanceCommitIndex"

IsSyntheticRequest(e) ==
    e.Name = "ClientRequest" /\ <<"request", 0>> \in e.Params

\* how many times event e occurs in the list evs
Occurrences(evs, e) == Cardinality({i \in 1..Len(evs) : evs[i] = e})

\* C8: within the events of one step every role-change event (BecomeLeader,
\* Timeout) precedes every AdvanceCommitIndex event, and every
\* AdvanceCommitIndex event precedes the synthetic ClientRequest{request:0}.
C8_RoleCommitRequestOrder ==
    LET e == lastStep.emitted
    IN  \A i, k \in 1..Len(e) :
           /\ (IsRoleChange(e[i]) /\ IsCommit(e[k])) => i < k
           /\ (IsCommit(e[i]) /\ IsSyntheticRequest(e[k])) => i < k

\* C9: in the event trace each BecomeLeader{n} is immediately followed by
\* ClientRequest{request:0, leader:n}, and a step emits BecomeLeader{n}
\* (once) exactly when the role of n changed to Leader between the snapshot
\* before the step and the status after it.
C9_BecomeLeaderThenRequest ==
    /\ \A i \in 1..Len(events) :
          events[i].Name = "BecomeLeader" =>
              /\ i < Len(events)
              /\ events[i + 1] = ClientRequestEvent(0, events[i].Node)
    /\ \A n \in Nodes :
          Occurrences(lastStep.emitted, BecomeLeaderEvent(n)) =
              IF /\ lastStep.old[n].RaftState # StateLeader
                 /\ curStates[n].RaftState = StateLeader
              THEN 1 ELSE 0

\* a node became leader in one step and was still leader after the next
C9_Witness ==
    /\ steps >= 2
    /\ \E n \in Nodes :
          /\ lastStep.node = n
          /\ lastStep.old[n].RaftState = StateLeader
          /\ curStates[n].RaftState = StateLeader
          /\ Occurrences(events, BecomeLeaderEvent(n)) = 1

\* C10: the diff of a node emits Timeout{n} exactly when the new role is
\* Candidate and either the old role was not Candidate or the term grew
\* while the role stayed Candidate; one diff never emits both BecomeLeader
\* and Timeout; a diff with role and term unchanged emits neither.
C10_TimeoutDiff ==
    \A n \in Nodes :
       LET old == lastStep.old[n]
           new == curStates[n]
           timeouts == Occurrences(lastStep.emitted, TimeoutEvent(n))
           leaders == Occurrences(lastStep.emitted, BecomeLeaderEvent(n))
       IN  /\ timeouts =
                 IF /\ new.RaftState = StateCandidate
                    /\ \/ old.RaftState # StateCandidate
                       \/ old.Term < new.Term
                 THEN 1 ELSE 0
           /\ ~(timeouts > 0 /\ leaders > 0)
           /\ old = new => (timeouts = 0 /\ leaders = 0)

\* a candidate stayed candidate under a greater term and Timeout was emitted
\* again
C10_Witness ==
    \E n \in Nodes :
       /\ lastStep.node = n
       /\ lastStep.old[n].RaftState = StateCandidate
       /\ curStates[n].RaftState = StateCandidate
       /\ lastStep.old[n].Term < curStates[n].Term
       /\ Occurrences(events, TimeoutEvent(n)) = 2


\* C11: for the ready batch of each node n a step emits exactly one
\* AdvanceCommitIndex{i:n} event when the batch holds at least one committed
\* entry, however many it holds, and none when it holds no committed entry.
C11_OneCommitEventPerReady ==
    \A n \in Nodes :
        Occurrences(lastStep.emitted, AdvanceCommitIndexEvent(n)) =
            (IF lastStep.ready[n] > 0 THEN 1 ELSE 0)

\* a step whose ready batch held several committed entries emitted the event
\* once, while the batch of another node held none
C11_Witness ==
    \E n, m \in Nodes :
        /\ lastStep.ready[n] >= 2
        /\ lastStep.ready[m] = 0
        /\ Occurrences(lastStep.emitted, AdvanceCommitIndexEvent(n)) = 1


\* the events before those of the latest step
EarlierEvents == SubSeq(events, 1, Len(events) - Len(lastStep.emitted))

\* C24: every BecomeLeader{n} event in the event trace is preceded by an
\* earlier Timeout{n} event of the same node (so that an election of node 1
\* reads Timeout{1}, BecomeLeader{1}, ClientRequest{request:0, leader:1}).
C24_LeaderAfterTimeout ==
    \A i \in 1..Len(events) :
        events[i].Name = "BecomeLeader" =>
            \E k \in 1..(i - 1) : events[k] = TimeoutEvent(events[i].Node)

\* C24 as amended: a node whose snapshot says Candidate has a Timeout{n}
\* event in the event trace, and every BecomeLeader{n} emitted for a node
\* whose snapshot said Candidate is preceded by an earlier Timeout{n} and
\* followed at once by ClientRequest{request:0, leader:n}.
C24_CandidateLeaderAfterTimeout ==
    \A n \in Nodes :
        /\ curStates[n].RaftState = StateCandidate =>
               Occurrences(events, TimeoutEvent(n)) > 0
        /\ (/\ lastStep.old[n].RaftState = StateCandidate
            /\ Occurrences(lastStep.emitted, BecomeLeaderEvent(n)) > 0) =>
               /\ Occurrences(EarlierEvents, TimeoutEvent(n)) > 0
               /\ \E i \in 1..(Len(events) - 1) :
                     /\ i > Len(EarlierEvents)
                     /\ events[i] = BecomeLeaderEvent(n)
                     /\ events[i + 1] = ClientRequestEvent(0, n)

\* the election of node 1: it turned candidate in one step and leader in the
\* next, and the event trace reads Timeout, BecomeLeader, ClientRequest
C24_Witness ==
    /\ lastStep.old[1].RaftState = StateCandidate
    /\ events = <<TimeoutEvent(1), BecomeLeaderEvent(1), ClientRequestEvent(0, 1)>>

(***************************************************************************)
(* Claims about the cluster harness (SpecCluster).                         *)
(***************************************************************************)
\* the pair a deliver operation named
OpPair == <<lastOp.from, lastOp.node>>

\* the cluster is as it was before the latest operation
ClusterAsBefore ==
    /\ curStates = lastOp.before.curStates
    /\ events = lastOp.before.events
    /\ messageQueues = lastOp.before.queue
    /\ down = lastOp.before.down
    /\ logs = lastOp.before.logs

\* the events the latest operation added
OpEvents == SubSeq(events, Len(lastOp.before.events) + 1, Len(events))

\* C12: messages of one (sender, receiver) pair reach the receiver in the
\* order they were enqueued: whatever deliver(from, to, index) the scheduler
\* chooses, no message is delivered while a message of the same pair that was
\* enqueued earlier is still in the queue.
C12_PairOrderKept ==
    (lastOp.op = "deliver" /\ lastOp.found) =>
        \A k \in 1..Len(messageQueues[OpPair]) :
            messageQueues[OpPair][k] > lastOp.msg

\* C13: while node n is down, tick(n) and deliver(_, n, _) change no node,
\* no queue and no event list, and no operation adds an event of a node that
\* is down (in particular no AdvanceCommitIndex{i:n}).
C13_DownNodeIsInert ==
    /\ (lastOp.op \in {"tick", "deliver"} /\ lastOp.node \in lastOp.before.down)
           => ClusterAsBefore
    /\ \A k \in 1..Len(OpEvents) : OpEvents[k].Node \notin lastOp.before.down

\* a message was waiting for a node, the node was crashed, and the message
\* was then named by a deliver: it is still waiting and the node is down
C13_Witness ==
    /\ lastOp.op = "deliver"
    /\ lastOp.node \in lastOp.before.down
    /\ lastOp.index < Len(lastOp.before.queue[OpPair])
    /\ Len(messageQueues[OpPair]) > 0
    /\ lastOp.node \in down

\* C14: deliver(from, to, index) on a queue entry that does not exist (the
\* pair's queue is empty or shorter than the index) changes nothing, reports
\* no error, and operations go on after it.
C14_MissingEntryIsNoOp ==
    (/\ lastOp.op = "deliver"
     /\ lastOp.index >= Len(lastOp.before.queue[OpPair])) =>
        /\ ClusterAsBefore
        /\ ~lastOp.found
        /\ ~lastOp.reported
        /\ steps < MaxSteps => ENABLED NextCluster

\* a deliver named an index past the end of a queue that holds messages for
\* a running node
C14_Witness ==
    /\ lastOp.op = "deliver"
    /\ lastOp.node \notin down
    /\ Len(lastOp.before.queue[OpPair]) > 0
    /\ lastOp.index >= Len(lastOp.before.queue[OpPair])

\* C15: client_request(request) adds exactly one event
\* ClientRequest{request, leader: l}, l being the leader selected, when there
\* is a leader and the library takes the proposal; with no leader, or with a
\* proposal the library rejects, it adds no event; it changes no node and no
\* queue and reports no failure.
C15_ClientRequest ==
    lastOp.op = "client_request" =>
        LET b == lastOp.before
            l == lastOp.leader
            leaders == {n \in Nodes \ b.down :
                           b.curStates[n].RaftState = StateLeader}
        IN  /\ l = 0 <=> leaders = {}
            /\ l # 0 =>
                  /\ l \in leaders
                  /\ \A m \in leaders :
                        /\ b.curStates[m].Term <= b.curStates[l].Term
                        /\ b.curStates[m].Term = b.curStates[l].Term => l <= m
            /\ curStates = b.curStates /\ messageQueues = b.queue /\ down = b.down
            /\ ~lastOp.reported
            /\ OpEvents = IF l # 0 /\ ~lastOp.err
                          THEN <<ClientRequestEvent(lastOp.request, l)>>
                          ELSE <<>>

\* a client request went to the leader and left its event
C15_Witness ==
    /\ lastOp.op = "client_request"
    /\ lastOp.leader # 0
    /\ ~lastOp.err
    /\ Len(events) = Len(lastOp.before.events) + 1


(***************************************************************************)
(* Claims about crash and restart (SpecRestart).                           *)
(***************************************************************************)
\* C30: crash(n) and restart(n) leave the persisted log of n (of every node)
\* as it was, and restart(n) keeps the term of n and sets its role to
\* Follower, whatever the node was when it crashed.
C30_CrashRestartFrame ==
    LET n == lastOp.node
        b == lastOp.before
    IN  /\ lastOp.op = "crash" => logs = b.logs
        /\ lastOp.op = "restart" =>
               /\ logs = b.logs
               /\ curStates[n] = Status(StateFollower, b.curStates[n].Term)
               /\ \A m \in Nodes \ {n} : curStates[m] = b.curStates[m]

\* a node that was leader, with an entry in its log, when it crashed was
\* restarted
C30_Witness ==
    /\ lastOp.op = "restart"
    /\ lastOp.before.curStates[lastOp.node].RaftState = StateLeader
    /\ lastOp.before.curStates[lastOp.node].Term > 0
    /\ logs[lastOp.node] # <<>>

(***************************************************************************)
(* Claims about the invariant hook (SpecHook).                             *)
(***************************************************************************)
\* C16: the driver evaluates the invariant hook after every step: whenever a
\* step leaves two nodes leader in the same term the iteration is fatal at
\* that step (no later choice is applied) and the campaign runs no further
\* iteration.
C16_TwoLeadersIsFatal ==
    TwoLeaders(curStates) => (hookPc = "fatal" /\ ~ENABLED NextHook)

\* the campaign stopped on two leaders while choices of the iteration and
\* iterations of the campaign were left
C16_Witness ==
    /\ hookPc = "fatal"
    /\ TwoLeaders(curStates)
    /\ hookT < HookHorizon
    /\ hookIter + 1 < Iterations

(***************************************************************************)
(* Claims about the iterations followed choice by choice (SpecRun).        *)
(***************************************************************************)
\* C17: in an iteration with parent trace P the choices applied at steps
\* 0 .. min(|P|, H) - 1 are P's choices in P's order, and a choice drawn at
\* random is applied only after every choice of P has been consumed.
C17_ReplayHeadFirst ==
    /\ Len(fresh) = Len(runTrace)
    /\ \A k \in 1..Len(runTrace) :
          /\ k <= Len(parent) => (runTrace[k] = parent[k] /\ ~fresh[k])
          /\ fresh[k] => k > Len(parent)

\* an iteration replayed a parent shorter than the horizon and drew the rest
C17_Witness ==
    /\ runT = Horizon
    /\ Len(parent) > 0
    /\ Len(parent) < Horizon
    /\ fresh[Horizon]
    /\ ~fresh[1]

\* C18: every trace an iteration records and every trace pushed onto the
\* queue of mutated traces has length at most the horizon H, whatever the
\* parent and the mutation operator, also when a step records a node choice
\* together with boolean or integer draws.
C18_HorizonBound ==
    /\ Len(runTrace) <= Horizon
    /\ \A k \in 1..Len(runQueue) : Len(runQueue[k]) <= Horizon

(***************************************************************************)
(* Claims about the mutator (SpecMutator).                                 *)
(***************************************************************************)
\* C23: for any trace of length at least 2 the swap-nodes mutation returns
\* a trace of the same length that holds every choice as many times as the
\* trace it was given.
C23_SwapKeepsChoices ==
    (mutResult.op = "swap_nodes" /\ Len(mutTrace) >= 2) =>
        /\ Len(mutResult.new) = Len(mutTrace)
        /\ \A c \in RunChoices :
              Occurrences(mutResult.new, c) = Occurrences(mutTrace, c)

\* two node choices of a trace that also holds a draw changed places
C23_Witness ==
    /\ mutResult.op = "swap_nodes"
    /\ mutResult.ok
    /\ mutResult.new # mutTrace
    /\ Len(mutTrace) = MaxMutLen
    /\ Positions(mutTrace, "Node") # DOMAIN mutTrace

(***************************************************************************)
(* Claims about traces as list objects (SpecCopy).                         *)
(***************************************************************************)
\* C19: a child pushed onto the queue of mutated traces shares no list with
\* its parent or with another child: a later mutation of a child changes
\* neither the parent trace nor any sibling in the queue.
C19_CopyIsolation ==
    lastMut.ref # 0 =>
        /\ heap[traceRef] = lastMut.before[traceRef]
        /\ \A i \in 1..Len(queueRefs) :
              (i # lastMut.child /\ queueRefs[i] <= Len(lastMut.before))
                  => heap[queueRefs[i]] = lastMut.before[queueRefs[i]]

\* Mutate handed back the parent list itself twice, both calls were ok, and
\* one of the two children was changed in place afterwards
C19_Witness ==
    /\ lastMut.ref # 0
    /\ Len(lastMut.before) = 3
    /\ Len(heap) = 3
    /\ Len(queueRefs) = 2
    /\ heap[lastMut.ref] # lastMut.before[lastMut.ref]
    /\ lastMut.before[queueRefs[1]] = lastMut.before[traceRef]
    /\ lastMut.before[queueRefs[2]] = lastMut.before[traceRef]

(***************************************************************************)
(* Claims about the pub/sub utility.                                       *)
(***************************************************************************)
IsBufferReturn(r) == r.src = "buffer"

\* the messages handed to BufferMessage among the first n messages, in order
RECURSIVE BufferedUpTo(_)
BufferedUpTo(n) ==
    IF n = 0 THEN <<>>
    ELSE BufferedUpTo(n - 1) \o
         (IF origin[n] = "buffer" THEN <<Obj(n, 0)>>
          ELSE IF origin[n] = "nil" THEN <<NilMsg>> ELSE <<>>)

\* the messages ReceiveMessage returned from the buffer, in order
BufferReturned ==
    LET rs == SelectSeq(returns, IsBufferReturn)
    IN  [i \in 1..Len(rs) |-> rs[i].msg]

\* C25: the messages added with BufferMessage are returned in the order they
\* were buffered, each by exactly one ReceiveMessage call (what was returned
\* followed by what the buffer still holds is what was buffered), as the
\* object that was buffered, with a nil error and without Ack or Nack, under
\* both ack modes; a call returns a message of the subscription only if it
\* found the buffer empty.
C25_BufferedFirstInOrder ==
    /\ BufferReturned \o messageBuffer = BufferedUpTo(Len(origin))
    /\ \A g \in Receivers :
          /\ lastRet[g].src = "buffer" =>
                /\ lastRet[g].err = "nil"
                /\ lastRet[g].msg = Head(lastRet[g].found)
          /\ (lastRet[g].src = "chan" /\ lastRet[g].msg # NilMsg) =>
                lastRet[g].found = <<>>
    /\ \A o \in acked \cup nacked : o.del > 0

\* two goroutines each returned one of two buffered messages, in AckModeAck
C25_Witness ==
    /\ ackMode = AckModeAck
    /\ Len(returns) >= 2
    /\ IsBufferReturn(returns[1]) /\ IsBufferReturn(returns[2])
    /\ returns[1].g # returns[2].g
    /\ returns[1].msg # NilMsg /\ returns[2].msg # NilMsg

\* C26: a ReceiveMessage call that found the buffer empty and whose context
\* was done before it took a message or a receiver error returns a nil
\* message with a non-nil error; no call that found the buffer empty returns
\* a nil message with a nil error.
C26_TimeoutIsError ==
    \A g \in Receivers :
       /\ lastRet[g].src = "ctx" =>
             (lastRet[g].msg = NilMsg /\ lastRet[g].err # "nil")
       /\ (lastRet[g].src # "none" /\ lastRet[g].found = <<>>
             /\ lastRet[g].msg = NilMsg) => lastRet[g].err # "nil"

\* a call timed out with nothing to take
C26_Witness ==
    \E g \in Receivers :
       /\ lastRet[g].src = "ctx"
       /\ lastRet[g].found = <<>>
       /\ lastRet[g].err = "timeout waiting for message"
       /\ rpc[g] = "idle"
       /\ messageChan = <<>> /\ errorChan = <<>>

Returned(m) == \E i \in DOMAIN returns : returns[i].msg.id = m

\* C27: with one goroutine looping on ReceiveMessage and another publishing
\* messageCount distinct messages, fewer than messageChan holds, in
\* AckModeAck, every message that reached the service is eventually returned
\* by ReceiveMessage, and no message is returned twice.
C27_PublishedReturnedOnce ==
    /\ [](\A a, b \in DOMAIN returns :
             a # b => returns[a].msg.id # returns[b].msg.id)
    /\ \A m \in MsgIds :
          (m \in ReachedService) ~> Returned(m)

\* several messages, fewer than messageChan holds, were published and each
\* was returned once; they were on their way together, the later one was
\* returned first
C27_Witness ==
    /\ ackMode = AckModeAck
    /\ MessageCount >= 2
    /\ MessageCount < chanCap
    /\ Cardinality(ReachedService) = MessageCount
    /\ Len(returns) = MessageCount
    /\ Received = MsgIds
    /\ \A i \in DOMAIN returns : returns[i].src = "chan" /\ returns[i].g = 1
    /\ returns[1].msg.id > returns[Len(returns)].msg.id

\* C28: PublishMessage with timeout <= 0 sets no deadline and never fails
\* with the timeout error; with timeout > 0, when the deadline expires
\* before the result is available, it returns the empty id and a non-nil
\* error; when the publish succeeds it returns the non-empty id of the
\* service and a nil error.
C28_PublishTimeout ==
    lastPublish.getErr # "none" =>
       /\ lastPublish.timeout <= 0 =>
             /\ lastPublish.err # "timeout publishing message"
             /\ lastPublish.getErr # "DeadlineExceeded"
             /\ lastPublish.ctxErr # "DeadlineExceeded"
       /\ (lastPublish.timeout > 0 /\ lastPublish.getErr = "DeadlineExceeded")
             => (lastPublish.id = 0 /\ lastPublish.err # "nil")
       /\ lastPublish.getErr = "nil" =>
             (lastPublish.id # 0 /\ lastPublish.err = "nil")
       /\ lastPublish.err = "nil" => lastPublish.getErr = "nil"

\* a publish with a negative timeout failed, and not with the timeout error
C28_Witness ==
    /\ lastPublish.timeout < 0
    /\ lastPublish.getErr = "service"
    /\ lastPublish.err = "failed to publish message"

\* C32: every message ReceiveMessage returned from messageChan was settled
\* once, by the ack mode of the client: acked and not nacked in AckModeAck,
\* nacked and not acked in AckModeNack.
C32_SettledByAckMode ==
    \A i \in DOMAIN returns :
       returns[i].src = "chan" =>
          /\ ackMode = AckModeAck =>
                (returns[i].msg \in acked /\ returns[i].msg \notin nacked)
          /\ ackMode = AckModeNack =>
                (returns[i].msg \in nacked /\ returns[i].msg \notin acked)

\* in AckModeNack a message was returned, nacked, delivered again as a new
\* object and returned again
C32_Witness ==
    /\ ackMode = AckModeNack
    /\ Len(returns) = 2
    /\ returns[1].src = "chan" /\ returns[2].src = "chan"
    /\ returns[1].msg.id = returns[2].msg.id
    /\ returns[1].msg \in nacked /\ returns[2].msg \in nacked

\* C33: whatever the interleaving of the ReceiveMessage calls, at most one
\* receiver goroutine is ever launched, and once it has exited (after a
\* receive error or after Close) no call launches another.
C33_OneReceiver ==
    [][/\ starts' <= 1
       /\ rcvPc = "exited" => (starts' = starts /\ rcvPc' = "exited")
      ]_vars

\* goroutine 1 made two calls: the first came back (with the receiver error,
\* taken from errorChan after the receiver had exited), the second is
\* waiting; one receiver was launched
C33_Witness ==
    /\ rcvPc = "exited"
    /\ starts = 1
    /\ ~cancelled
    /\ calls = 2
    /\ lastRet[2] = NoRet
    /\ rpc[1] = "wait"
    /\ errorChan = <<>>

\* C35: Close terminates: it cancels the client context, reads
\* receiverStarted at most MaxPolls times (100 in the program) and then
\* closes the client, whether the receiver has stopped or not; as long as
\* no call has begun to start the receiver (receiverStarted was never set)
\* it has not slept; and a receiver goroutine that has returned has cleared
\* receiverStarted.
C35_CloseTerminates ==
    /\ [](polls <= MaxPolls /\ sleeps <= MaxPolls)
    /\ [](closePc # "none" => cancelled)
    /\ []((~onceDone /\ onceBusy = 0) => sleeps = 0)
    /\ [](rcvPc = "exited" => ~receiverStarted)
    /\ (closePc \in {"stop", "poll"}) ~> (closePc = "closed")

\* Close is over after the last turn of its loop while the receiver is
\* still running
C35_Witness ==
    /\ closePc = "closed"
    /\ sleeps = MaxPolls
    /\ rcvPc = "running"
    /\ receiverStarted

\* the callbacks that end in this step
Finishing == inCallback \ inCallback'

\* c.ctx or the context of the callback is done
CallbackDone == cancelled \/ CallbackCtxDone(rcvPc, cancelled)

\* C34: the callback never blocks (a case of its second select can always be
\* taken); a callback that finds messageChan full nacks its message and does
\* not enqueue it; messageChan never holds more than its capacity.
C34_FullChannelNacks ==
    [][/\ \A o \in Finishing :
             Len(messageChan) = ChanCap =>
                 (o \in nacked' /\ messageChan' = messageChan)
       /\ SendChoices(messageChan, cancelled,
                      CallbackCtxDone(rcvPc, cancelled)) # {}
       /\ Len(messageChan') <= ChanCap
      ]_vars

\* C34 as amended: as above, but the message is nacked only while neither
\* the client context nor the context of the callback is done; once one of
\* them is done, the callback that finds the channel full returns without
\* enqueueing and without nacking.
C34_FullChannelNacksWhileOpen ==
    [][/\ \A o \in Finishing :
             Len(messageChan) = ChanCap =>
                 /\ messageChan' = messageChan
                 /\ ~CallbackDone => o \in nacked'
                 /\ CallbackDone => (o \notin nacked' /\ o \notin acked')
       /\ SendChoices(messageChan, cancelled,
                      CallbackCtxDone(rcvPc, cancelled)) # {}
       /\ Len(messageChan') <= ChanCap
      ]_vars

\* in AckModeAck, where only the callback nacks: the channel is full and a
\* message was nacked, neither context being done
C34_Witness ==
    /\ ackMode = AckModeAck
    /\ ~CallbackDone
    /\ Len(messageChan) = ChanCap
    /\ nacked # {}

\* C36: once Close has cancelled the client context the callback enqueues
\* no message into messageChan, and a ReceiveMessage call made after that
\* which finds the buffer empty returns a non-nil error and no message of
\* the subscription.
C36_NothingAfterClose ==
    [][/\ cancelled => Len(messageChan') <= Len(messageChan)
       /\ \A g \in Receivers :
             (/\ lastRet'[g].afterClose
              /\ lastRet'[g].src # "none"
              /\ lastRet'[g].found = <<>>)
                 => (lastRet'[g].err # "nil" /\ lastRet'[g].src # "chan")
      ]_vars

=============================================================================
